---- MODULE Spec2Model ----
(***************************************************************************)
(* Comment store of spring-break-2026.                                     *)
(*                                                                         *)
(* Remote-blob variant (src/server.js, second server, lines 282-543): the  *)
(* comments live in one JSON file of a GitHub repository, read and written *)
(* through the Contents API; a write carries the blob sha it replaces.     *)
(*                                                                         *)
(* Local-file variant (src/unnamed/part_001, lines 75-179): the comments   *)
(* live in data/comments.json, cached in commentsCache and written under   *)
(* the writing flag.                                                       *)
(*                                                                         *)
(* Every request is one async handler; a step of the model runs a handler  *)
(* from one await to the next, as the event loop does.                     *)
(***************************************************************************)
EXTENDS Integers, Sequences, FiniteSets, TLC

(***************************************************************************)
(* Bounds of the model.                                                    *)
(***************************************************************************)
\* number of comments in the file when the server starts: 0..MaxInit
MaxInit == 1
\* clock readings (Date.now()) after start: the clock advances at most MaxTicks times
MaxTicks == 1
\* number of comments in the collection a sequential client finds: 0..MaxStored
MaxStored == 3

(***************************************************************************)
(* Program constants.                                                      *)
(***************************************************************************)
maxAttempts == 4
BaseDelay == 200
MaxItems == 2000
MaxNameLength == 100
MaxTextLength == 1000
\* the search handler: the longest query, the range and the default of max_results
MaxQueryLength == 500
MinResults == 1
MaxResults == 20
DefaultResults == 6

\* HTTP statuses of the Contents API, and the status of an error that has no
\* response (err.response undefined: a network error, a JSON SyntaxError)
NoStatus == 0
StatusOK == 200
StatusCreated == 201
StatusNoContent == 204
StatusBadRequest == 400
StatusUnauthorized == 401
StatusNotFound == 404
StatusConflict == 409
StatusUnprocessable == 422
StatusServerError == 500
StatusBadGateway == 502

\* requests in flight at the same time
Procs == {"r1", "r2"}
\* the name a request submits ("" for a request without one)
NameOf(p) == IF p = "r1" THEN "A" ELSE IF p = "r2" THEN "B" ELSE "C"
\* requests in flight at the same time in the local-file variant
LocalProcs == {"r1", "r2", "r3"}
\* a client of the remote-blob server, and one of the local-file server, that
\* makes its requests one after the other; the client "s0" is served by the
\* first revision of the remote-blob server, whose handlers differ in sanitize
SeqProcs == {"s0", "s1"}
FirstRevision == {"s0"}
FileProcs == {"f1"}

(***************************************************************************)
(* Strings are sequences of characters.                                    *)
(***************************************************************************)
Chars(n) == [i \in 1..n |-> "a"]
Range(s) == {s[i] : i \in 1..Len(s)}

\* String.prototype.trim
trim(s) ==
  IF \A i \in 1..Len(s) : s[i] = " " THEN <<>>
  ELSE SubSeq(s, CHOOSE i \in 1..Len(s) : s[i] # " " /\ \A j \in 1..(i - 1) : s[j] = " ",
                 CHOOSE i \in 1..Len(s) : s[i] # " " /\ \A j \in (i + 1)..Len(s) : s[j] = " ")

\* String.prototype.replace(/c/g, r)
RECURSIVE replaceAll(_, _, _)
replaceAll(s, c, r) ==
  IF c \notin Range(s) THEN s
  ELSE LET i == CHOOSE k \in 1..Len(s) : s[k] = c /\ \A j \in 1..(k - 1) : s[j] # c
       IN SubSeq(s, 1, i - 1) \o r \o replaceAll(SubSeq(s, i + 1, Len(s)), c, r)

\* String(str).replace(/</g, '&lt;').replace(/>/g, '&gt;')
sanitize(s) ==
  replaceAll(replaceAll(s, "<", <<"&", "l", "t", ";">>), ">", <<"&", "g", "t", ";">>)

\* String.prototype.toLowerCase, of one character
UpperCase == <<"S", "C", "R", "I", "P", "T">>
toLowerCase(c) ==
  IF \E k \in 1..Len(UpperCase) : UpperCase[k] = c
    THEN <<"s", "c", "r", "i", "p", "t">>[CHOOSE k \in 1..Len(UpperCase) : UpperCase[k] = c]
    ELSE c
\* \s
WhiteSpace == {" ", "\t", "\n"}

\* the last index of the match of /<open>\s*script/i that starts at s[i], or 0
MatchEnd(s, i, open) ==
  LET a == i + Len(open)
      b == CHOOSE k \in a..(Len(s) + 1) :
             /\ k = Len(s) + 1 \/ s[k] \notin WhiteSpace
             /\ \A j \in a..(k - 1) : s[j] \in WhiteSpace
  IN IF /\ a - 1 <= Len(s)
        /\ SubSeq(s, i, a - 1) = open
        /\ b + 5 <= Len(s)
        /\ [k \in 1..6 |-> toLowerCase(s[b + k - 1])] = <<"s", "c", "r", "i", "p", "t">>
       THEN b + 5
       ELSE 0

\* String.prototype.replace(/<open>\s*script/ig, ''): the matches are taken
\* from left to right and the text after a match is scanned on its own
RECURSIVE removeScript(_, _)
removeScript(s, open) ==
  IF "<" \notin Range(s) THEN s
  ELSE LET i == CHOOSE k \in 1..Len(s) : s[k] = "<" /\ \A j \in 1..(k - 1) : s[j] # "<"
           e == MatchEnd(s, i, open)
       IN IF e = 0
            THEN SubSeq(s, 1, i) \o removeScript(SubSeq(s, i + 1, Len(s)), open)
            ELSE SubSeq(s, 1, i - 1) \o removeScript(SubSeq(s, e + 1, Len(s)), open)

\* the first revision:
\* String(s).replace(/<\s*script/ig, '').replace(/<\/\s*script/ig, '')
sanitizeFirst(s) == removeScript(removeScript(s, <<"<">>), <<"<", "/">>)

\* the sanitize of the server that serves p
sanitizeOf(p, s) == IF p \in FirstRevision THEN sanitizeFirst(s) ELSE sanitize(s)

\* new Date().toISOString() at the clock reading t: a string such as
\* '2026-03-01T12:00:00.000Z'
toISOString(t) == [type |-> "string", ms |-> t]

Comment(i, n, x, c) == [id |-> i, name |-> n, text |-> x, created_at |-> c]
NoComment == Comment(0, <<>>, <<>>, toISOString(0))

\* req.body of a POST: name and text (body.text || body.comment || body.message)
Body(n, x) == [name |-> n, text |-> x]
\* the bodies the concurrent clients submit
PlainBodies(p) == {Body(<<NameOf(p)>>, <<"x">>), Body(<<>>, <<"x">>)}
\* the bodies a sequential client submits
RichBodies ==
  { Body(<<"A">>, <<"x">>),
    Body(<<>>, <<"x">>),
    Body(<<"A">>, <<>>),
    Body(<<" ">>, <<"x">>),
    Body(<<"A">>, <<" ", " ">>),
    Body(<<" ", "B", " ">>, <<" ", "y">>),
    Body(Chars(MaxNameLength), <<"x">>),
    Body(<<" ">> \o Chars(MaxNameLength) \o <<" ">>, <<"x">>),
    Body(Chars(MaxNameLength + 1), <<"x">>),
    Body(<<"A">>, Chars(MaxTextLength)),
    Body(<<"A">>, Chars(MaxTextLength + 1)),
    Body(<<"<", "b", ">">>, <<"<", "<", "i", ">", ">", "&", "<">>),
    Body(<<"<", " ", "S", "c", "r", "i", "p", "t", ">">>,
         <<"<", "s", "c", "r", "<", "s", "c", "r", "i", "p", "t", "i", "p", "t", ">">>) }
Bodies(p) == IF p \in SeqProcs \cup FileProcs THEN RichBodies ELSE PlainBodies(p)

\* if (!name || !text); the local-file server also bounds the lengths
requiredNothing(name, text) == TRUE
required(name, text) == name # <<>> /\ text # <<>>

FirstClock == MaxInit + 1
LastClock == FirstClock + MaxTicks

\* req.params.id of the DELETEs a client makes
Ids(p) == IF p \in SeqProcs \cup FileProcs THEN (0 - MaxStored)..LastClock ELSE 1..LastClock

(***************************************************************************)
(* The remote store: the file at COMMENTS_PATH on GITHUB_BRANCH.           *)
(***************************************************************************)
AbsentFile == [kind |-> "absent", list |-> <<>>]
ArrayFile(l) == [kind |-> "array", list |-> l]
\* valid JSON that is not an array, e.g. {}
NonArrayFile == [kind |-> "nonarray", list |-> <<>>]
\* bytes that JSON.parse rejects
MalformedFile == [kind |-> "malformed", list |-> <<>>]

\* the file as the server finds it: newest comment first
InitialList(n) == [i \in 1..n |-> Comment(n + 1 - i, <<"Z">>, <<"x">>, toISOString(n + 1 - i))]
InitialFiles ==
  {AbsentFile, NonArrayFile, MalformedFile} \cup {ArrayFile(InitialList(n)) : n \in 0..MaxInit}

\* the blob sha GitHub returns with a file: a hash of the stored bytes
NullSha == <<>>
ShaOf(f) == <<f.kind, f.list>>


\* the outcome of one HTTP exchange that the state of the file does not decide:
\* StatusOK lets the store answer from the file; anything else is the status the
\* exchange fails with. A GET fails with a server (or auth, network) error; a PUT
\* also with the 409 GitHub gives while other commits move the branch.
GetFaults == {StatusOK, StatusServerError}
PutFaults == {StatusOK, StatusConflict, StatusServerError}

\* the status axios.get sees
githubGetFile(f, fault) ==
  IF fault # StatusOK THEN fault
  ELSE IF f.kind = "absent" THEN StatusNotFound
  ELSE StatusOK

\* { list, sha } or a thrown error; status is err.response.status, NoStatus when
\* the error has no response (JSON.parse threw)
readCommentsFromGitHubRethrows(f, fault) ==
  LET http == githubGetFile(f, fault) IN
  IF http = StatusOK /\ f.kind = "array"
    THEN [ok |-> TRUE, http |-> http, status |-> http, list |-> f.list, sha |-> ShaOf(f)]
  ELSE IF http = StatusOK /\ f.kind = "nonarray"
    THEN [ok |-> TRUE, http |-> http, status |-> http, list |-> <<>>, sha |-> ShaOf(f)]
  ELSE IF http = StatusOK
    THEN [ok |-> FALSE, http |-> http, status |-> NoStatus, list |-> <<>>, sha |-> NullSha]
  ELSE [ok |-> FALSE, http |-> http, status |-> http, list |-> <<>>, sha |-> NullSha]
readCommentsFromGitHub(f, fault) ==
  LET http == githubGetFile(f, fault) IN
  IF http = StatusOK /\ f.kind = "array"
    THEN [ok |-> TRUE, http |-> http, status |-> http, list |-> f.list, sha |-> ShaOf(f)]
  ELSE IF http = StatusOK /\ f.kind = "nonarray"
    THEN [ok |-> TRUE, http |-> http, status |-> http, list |-> <<>>, sha |-> ShaOf(f)]
  ELSE IF http = StatusOK
    THEN [ok |-> FALSE, http |-> http, status |-> NoStatus, list |-> <<>>, sha |-> NullSha]
  ELSE IF http = StatusNotFound
    THEN [ok |-> TRUE, http |-> http, status |-> http, list |-> <<>>, sha |-> NullSha]
  ELSE [ok |-> FALSE, http |-> http, status |-> http, list |-> <<>>, sha |-> NullSha]

\* the Contents API's answer to a PUT of the array l with (or without) a sha, and
\* the file it leaves
githubPutFile(f, token, l, sha, fault) ==
  IF fault # StatusOK THEN [status |-> fault, file |-> f]
  ELSE IF ~token THEN [status |-> StatusUnauthorized, file |-> f]
  ELSE IF f.kind = "absent"
    THEN IF sha = NullSha
           THEN [status |-> StatusCreated, file |-> ArrayFile(l)]
           ELSE [status |-> StatusUnprocessable, file |-> f]
  ELSE IF sha = NullSha THEN [status |-> StatusUnprocessable, file |-> f]
  ELSE IF sha # ShaOf(f) THEN [status |-> StatusConflict, file |-> f]
  ELSE [status |-> StatusOK, file |-> ArrayFile(l)]

PutSucceeded(status) == status \in {StatusOK, StatusCreated}

(***************************************************************************)
(* The handlers' pure steps.                                               *)
(***************************************************************************)
Min(a, b) == IF a < b THEN a ELSE b

\* [item].concat(current).slice(0, 2000)
PostNextUncapped(it, current) == <<it>> \o current
PostNext(it, current) == SubSeq(<<it>> \o current, 1, Min(Len(current) + 1, MaxItems))

\* current.filter(c => c.id !== id)
DeleteNextFirstOnly(current, id) ==
  LET h == {k \in 1..Len(current) : current[k].id = id} IN
  IF h = {} THEN current
  ELSE LET k == CHOOSE k \in h : \A j \in h : k <= j
       IN SubSeq(current, 1, k - 1) \o SubSeq(current, k + 1, Len(current))
DeleteNextKeepsMatch(current, id) == SelectSeq(current, LAMBDA c : c.id = id)
DeleteNext(current, id) == SelectSeq(current, LAMBDA c : c.id # id)

\* next.length === current.length: no record has the id
NotFoundNever(nx, current) == FALSE
NotFound(nx, current) == Len(nx) = Len(current)

\* JavaScript numbers: an integer or NaN
Num(n) == [nan |-> FALSE, n |-> n]
NaN == [nan |-> TRUE, n |-> 0]
\* (v || 0) for a created_at value: undefined gives 0
OrZero(v) == IF v.type = "undefined" THEN [type |-> "number", ms |-> 0] ELSE v
\* ToNumber, which the operator - applies to its operands: a date string such as
\* '2026-03-01T12:00:00.000Z' is not a numeric literal
ToNumber(v) == IF v.type = "number" THEN Num(v.ms) ELSE NaN
Minus(x, y) == IF x.nan \/ y.nan THEN NaN ELSE Num(x.n - y.n)
\* (a, b) => (b.created_at || 0) - (a.created_at || 0)
newestFirst(a, b) == Minus(ToNumber(OrZero(b.created_at)), ToNumber(OrZero(a.created_at)))
\* SortCompare of Array.prototype.sort: a comparator result of NaN counts as +0;
\* a goes before b when the result is negative
SortsBefore(a, b) == LET v == newestFirst(a, b) IN ~v.nan /\ v.n < 0
\* list.sort(comparefn): a stable sort
sort(list) == SortSeq(list, SortsBefore)

\* status === 409 || status === 422
IsConflictAny(status) == TRUE
IsConflictNone(status) == FALSE
IsConflict(status) == status \in {StatusConflict, StatusUnprocessable}

\* for (let attempt = 0; attempt < maxAttempts; attempt++)
LoopContinuesOneMore(a) == a <= maxAttempts
LoopContinues(a) == a < maxAttempts

\* const delay = 200 * (attempt + 1)
Delay(a) == BaseDelay * (a + 1)


(***************************************************************************)
(* The AI provider's response and the normalizer of callGemini.            *)
(*                                                                         *)
(* A text is a sequence of tokens: a punctuation mark of JSON, a string    *)
(* literal (its content a text), a bare word, or white space. A JSON value *)
(* is a string (a text), an array (a sequence of values), an object (a     *)
(* sequence of key and value pairs, a key being a text), null, or, for a   *)
(* field that is absent, undefined.                                        *)
(***************************************************************************)
Pt(c) == [k |-> "punct", s |-> c]
Lit(x) == [k |-> "str", lit |-> x]
Wd(w) == [k |-> "word", s |-> w]
NewLine == [k |-> "space", s |-> "\n"]

Undefined == [t |-> "undefined"]
JNull == [t |-> "null"]
JStr(x) == [t |-> "string", str |-> x]
JArr(l) == [t |-> "array", arr |-> l]
JObj(f) == [t |-> "object", obj |-> f]
Key(w) == <<Wd(w)>>

\* Array.isArray(v)
isArray(v) == v.t = "array"
\* Boolean(v)
Truthy(v) == v.t \in {"array", "object"} \/ (v.t = "string" /\ v.str # <<>>)
\* v.name for a v that is neither null nor undefined
Get(v, name) ==
  IF v.t = "object" /\ \E i \in 1..Len(v.obj) : v.obj[i][1] = Key(name)
    THEN v.obj[CHOOSE i \in 1..Len(v.obj) :
                /\ v.obj[i][1] = Key(name)
                /\ \A j \in (i + 1)..Len(v.obj) : v.obj[j][1] # Key(name)][2]
    ELSE Undefined
\* v.name throws a TypeError
NoProperties(v) == v.t \in {"null", "undefined"}

\* the texts xs joined with the separator sep
RECURSIVE join(_, _)
join(xs, sep) ==
  IF xs = <<>> THEN <<>>
  ELSE IF Len(xs) = 1 THEN xs[1]
  ELSE xs[1] \o sep \o join(Tail(xs), sep)

\* String(v); an element of an array that is null or undefined gives ''
RECURSIVE String(_)
String(v) ==
  CASE v.t = "string" -> v.str
    [] v.t = "array" ->
         join([i \in 1..Len(v.arr) |->
                 IF NoProperties(v.arr[i]) THEN <<>> ELSE String(v.arr[i])], <<Pt(",")>>)
    [] v.t = "object" -> <<Pt("["), Wd("object"), Wd("Object"), Pt("]")>>
    [] OTHER -> <<Wd(v.t)>>

\* JSON.stringify(v) of a value that is not undefined
RECURSIVE stringify(_)
stringify(v) ==
  CASE v.t = "string" -> <<Lit(v.str)>>
    [] v.t = "array" ->
         <<Pt("[")>>
           \o join([i \in 1..Len(v.arr) |->
                      IF v.arr[i].t = "undefined" THEN <<Wd("null")>> ELSE stringify(v.arr[i])],
                   <<Pt(",")>>)
           \o <<Pt("]")>>
    [] v.t = "object" ->
         <<Pt("{")>>
           \o join([i \in 1..Len(v.obj) |->
                      <<Lit(v.obj[i][1]), Pt(":")>> \o stringify(v.obj[i][2])],
                   <<Pt(",")>>)
           \o <<Pt("}")>>
    [] OTHER -> <<Wd("null")>>

\* the result of parsing a prefix of a text: the value and the rest
NoParse == [ok |-> FALSE, val |-> Undefined, rest |-> <<>>]
Parsed(v, r) == [ok |-> TRUE, val |-> v, rest |-> r]
Is(tok, c) == tok.k = "punct" /\ tok.s = c

RECURSIVE parseValue(_), parseElements(_, _), parseMembers(_, _)
\* a JSON value at the head of the text ts
parseValue(ts) ==
  IF ts = <<>> THEN NoParse
  ELSE LET h == Head(ts)
           r == Tail(ts)
       IN CASE h.k = "str" -> Parsed(JStr(h.lit), r)
            [] h.k = "word" /\ h.s = "null" -> Parsed(JNull, r)
            [] Is(h, "[") ->
                 IF r # <<>> /\ Is(Head(r), "]") THEN Parsed(JArr(<<>>), Tail(r))
                 ELSE parseElements(r, <<>>)
            [] Is(h, "{") ->
                 IF r # <<>> /\ Is(Head(r), "}") THEN Parsed(JObj(<<>>), Tail(r))
                 ELSE parseMembers(r, <<>>)
            [] OTHER -> NoParse
\* the elements of an array after acc, up to its ']'
parseElements(ts, acc) ==
  LET e == parseValue(ts)
  IN IF ~e.ok \/ e.rest = <<>> THEN NoParse
     ELSE IF Is(Head(e.rest), ",") THEN parseElements(Tail(e.rest), Append(acc, e.val))
     ELSE IF Is(Head(e.rest), "]") THEN Parsed(JArr(Append(acc, e.val)), Tail(e.rest))
     ELSE NoParse
\* the members of an object after acc, up to its '}'
parseMembers(ts, acc) ==
  IF Len(ts) < 3 \/ ts[1].k # "str" \/ ~Is(ts[2], ":") THEN NoParse
  ELSE LET e == parseValue(SubSeq(ts, 3, Len(ts)))
           m == Append(acc, <<ts[1].lit, e.val>>)
       IN IF ~e.ok \/ e.rest = <<>> THEN NoParse
          ELSE IF Is(Head(e.rest), ",") THEN parseMembers(Tail(e.rest), m)
          ELSE IF Is(Head(e.rest), "}") THEN Parsed(JObj(m), Tail(e.rest))
          ELSE NoParse

\* JSON.parse(txt): white space between the tokens is skipped, the whole text
\* is one value, and anything else throws (ok is FALSE)
JSONparse(txt) ==
  LET e == parseValue(SelectSeq(txt, LAMBDA tok : tok.k # "space"))
  IN IF e.ok /\ e.rest = <<>> THEN e ELSE NoParse

\* String(txt).match(/\[.*\]/s): from the first '[' to the last ']'
Brackets(txt, c) == {i \in 1..Len(txt) : Is(txt[i], c)}
FirstOf(S) == CHOOSE i \in S : \A j \in S : i <= j
LastOf(S) == CHOOSE i \in S : \A j \in S : j <= i
HasMatch(txt) ==
  /\ Brackets(txt, "[") # {}
  /\ Brackets(txt, "]") # {}
  /\ FirstOf(Brackets(txt, "[")) < LastOf(Brackets(txt, "]"))
Match(txt) == SubSeq(txt, FirstOf(Brackets(txt, "[")), LastOf(Brackets(txt, "]")))

\* what callGemini does: it returns an array or throws
Returns(l) == [ok |-> TRUE, val |-> l, error |-> ""]
Throws(e) == [ok |-> FALSE, val |-> Undefined, error |-> e]
Nothing == Throws("none")

\* the loop body without the substring fallback
tryParseWholeOnly(txt) ==
  LET whole == JSONparse(String(txt))
  IN IF whole.ok /\ isArray(whole.val) THEN Returns(whole.val)
     ELSE IF whole.ok /\ Truthy(whole.val) /\ isArray(Get(whole.val, "results"))
            THEN Returns(Get(whole.val, "results"))
     ELSE Nothing

\* the loop body returning whatever the text parses to: `if (parsed) return
\* parsed` without the Array.isArray tests
tryParseAnyJSON(txt) ==
  LET whole == JSONparse(String(txt))
  IN IF whole.ok
       THEN IF Truthy(whole.val) THEN Returns(whole.val) ELSE Nothing
       ELSE IF HasMatch(String(txt))
              THEN LET part == JSONparse(Match(String(txt)))
                   IN IF part.ok /\ isArray(part.val) THEN Returns(part.val) ELSE Nothing
              ELSE Nothing

\* the body of the loop over the text candidates: the array it returns, or
\* Nothing when the loop goes on to the next candidate
tryParseJSONFromText(txt) ==
  LET whole == JSONparse(String(txt))
  IN IF whole.ok
       THEN IF isArray(whole.val) THEN Returns(whole.val)
            ELSE IF Truthy(whole.val) /\ isArray(Get(whole.val, "results"))
                   THEN Returns(Get(whole.val, "results"))
            ELSE Nothing
       ELSE IF HasMatch(String(txt))
              THEN LET part == JSONparse(Match(String(txt)))
                   IN IF part.ok /\ isArray(part.val) THEN Returns(part.val) ELSE Nothing
              ELSE Nothing

\* data.candidates && data.candidates.map(c => c.output).join('\n')
CandidatesThrow(d) ==
  LET c == Get(d, "candidates")
  IN Truthy(c) /\ (~isArray(c) \/ \E i \in 1..Len(c.arr) : NoProperties(c.arr[i]))
candidatesText(d) ==
  LET c == Get(d, "candidates")
  IN IF ~Truthy(c) THEN c
     ELSE JStr(join([i \in 1..Len(c.arr) |->
                       IF NoProperties(Get(c.arr[i], "output")) THEN <<>>
                       ELSE String(Get(c.arr[i], "output"))], <<NewLine>>))

\* [data.output_text, data.output, data.text, ..., JSON.stringify(data)].filter(Boolean)
textCandidates(d) ==
  SelectSeq(<<Get(d, "output_text"), Get(d, "output"), Get(d, "text"),
              candidatesText(d), JStr(stringify(d))>>, Truthy)

\* the loop ending with an empty array in place of the throw
RECURSIVE firstArrayOrEmpty(_)
firstArrayOrEmpty(txts) ==
  IF txts = <<>> THEN Returns(JArr(<<>>))
  ELSE IF tryParseJSONFromText(Head(txts)).ok THEN tryParseJSONFromText(Head(txts))
  ELSE firstArrayOrEmpty(Tail(txts))

\* for (const txt of textCandidates): the first candidate that gives an array
RECURSIVE firstArray(_)
firstArray(txts) ==
  IF txts = <<>> THEN Throws("Error")
  ELSE IF tryParseJSONFromText(Head(txts)).ok THEN tryParseJSONFromText(Head(txts))
  ELSE firstArray(Tail(txts))

\* Case C alone, and Case C before Case B
caseC(d) == IF CandidatesThrow(d) THEN Throws("TypeError") ELSE firstArray(textCandidates(d))
normalizeTextFirst(d) ==
  IF isArray(d) THEN Returns(d)
  ELSE IF NoProperties(d) THEN Throws("TypeError")
  ELSE IF caseC(d).ok THEN caseC(d)
  ELSE IF isArray(Get(d, "results")) THEN Returns(Get(d, "results"))
  ELSE caseC(d)

\* callGemini, from `const data = response.data` on
normalize(d) ==
  IF isArray(d) THEN Returns(d)
  ELSE IF NoProperties(d) THEN Throws("TypeError")
  ELSE IF isArray(Get(d, "results")) THEN Returns(Get(d, "results"))
  ELSE caseC(d)

(***************************************************************************)
(* callGemini of the older local-file server (src/unnamed/part_000), which *)
(* also reads the fields predictions and generations.                      *)
(***************************************************************************)
\* the text an element p of predictions gives
predictionText(p) ==
  IF p.t = "string" THEN p.str
  ELSE IF Truthy(p) /\ Truthy(Get(p, "content")) THEN String(Get(p, "content"))
  ELSE IF Truthy(p) /\ Truthy(Get(p, "output"))
         THEN IF Get(p, "output").t = "string" THEN Get(p, "output").str
              ELSE stringify(Get(p, "output"))
  ELSE IF p.t = "undefined" THEN <<>>
  ELSE stringify(p)

\* tryParseFromCandidates(predictions): the texts joined by '\n' and parsed
tryParseFromCandidates(predictions) ==
  tryParseJSONFromText(
    JStr(join([i \in 1..Len(predictions.arr) |-> predictionText(predictions.arr[i])],
              <<NewLine>>)))

\* c.output || c, as join writes it
candidateText(c) ==
  LET v == IF Truthy(Get(c, "output")) THEN Get(c, "output") ELSE c
  IN IF NoProperties(v) THEN <<>> ELSE String(v)
\* data.candidates && Array.isArray(data.candidates)
\*   ? data.candidates.map(c => c.output || c).join('\n') : null
candidatesTextOlder(d) ==
  LET c == Get(d, "candidates")
  IN IF ~isArray(c) THEN JNull
     ELSE JStr(join([i \in 1..Len(c.arr) |-> candidateText(c.arr[i])], <<NewLine>>))

\* g.text || JSON.stringify(g), as join writes it
generationText(g) ==
  IF Truthy(Get(g, "text")) THEN String(Get(g, "text")) ELSE stringify(g)
\* data.generations && Array.isArray(data.generations)
\*   ? data.generations.map(g => g.text || JSON.stringify(g)).join('\n') : null
generationsText(d) ==
  LET g == Get(d, "generations")
  IN IF ~isArray(g) THEN JNull
     ELSE JStr(join([i \in 1..Len(g.arr) |-> generationText(g.arr[i])], <<NewLine>>))

\* c.output or g.text of an element that is null: a TypeError
MapThrows(d) ==
  \E name \in {"candidates", "generations"} :
    /\ isArray(Get(d, name))
    /\ \E i \in 1..Len(Get(d, name).arr) : NoProperties(Get(d, name).arr[i])

textCandidatesOlder(d) ==
  SelectSeq(<<Get(d, "output_text"), Get(d, "output"), Get(d, "text"),
              candidatesTextOlder(d), generationsText(d), JStr(stringify(d))>>, Truthy)

\* callGemini of part_000, from `const data = resp.data` on
normalizeOlder(d) ==
  IF isArray(d) THEN Returns(d)
  ELSE IF NoProperties(d) THEN Throws("TypeError")
  ELSE IF isArray(Get(d, "results")) THEN Returns(Get(d, "results"))
  ELSE IF isArray(Get(d, "predictions")) /\ tryParseFromCandidates(Get(d, "predictions")).ok
         THEN tryParseFromCandidates(Get(d, "predictions"))
  ELSE IF MapThrows(d) THEN Throws("TypeError")
  ELSE firstArray(textCandidatesOlder(d))

(***************************************************************************)
(* State of the remote-blob server.                                        *)
(***************************************************************************)
VARIABLES
  GITHUB_TOKEN,  \* whether process.env.GITHUB_TOKEN is set
  repoFile,      \* the file in the repository
  now,           \* the clock Date.now() reads
  pc,            \* where each request's handler is suspended
  kind,          \* "post", "delete", "init" or "none"
  item,          \* the comment a POST creates
  delId,         \* req.params.id of a DELETE
  next,          \* the candidate list the handler passes to saveCommentsToGitHub
  attempt,       \* the loop variable of saveCommentsToGitHub
  currentSha,    \* the sha read in the current attempt
  ioLog,         \* per request: the store calls and timer waits it has made
  resp,          \* the response sent
  dataFile,      \* local variant: data/comments.json
  heap,          \* local variant: the arrays (and objects) JSON.parse and filter made
  commentsCache, \* local variant: the cached array, a reference into heap, or Null
  writing,       \* local variant: the single-writer flag
  newList,       \* local variant: the array a request passed to saveComments
  wdata,         \* local variant: the text a request's fs.writeFile is writing
  wfail,         \* local variant: whether an fs.writeFile of the request failed
  GEMINI_API_URL, \* search: whether GEMINI_API_URL and GEMINI_API_KEY are set
  searchBody,    \* search: req.body of the search request
  data           \* search: response.data of the provider's response

\* state of the remote variant alone, of the local variant alone
remoteOnly == <<GITHUB_TOKEN, repoFile, next, attempt, currentSha, ioLog>>
localOnly == <<dataFile, heap, commentsCache, writing, newList, wdata, wfail>>
searchOnly == <<GEMINI_API_URL, searchBody, data>>
vars == <<now, pc, kind, item, delId, resp, remoteOnly, localOnly, searchOnly>>

\* null
Null == 0

\* the values of the fields of a search request's body
Absent == [type |-> "undefined"]
Text(cs) == [type |-> "string", chars |-> cs]
Number(n) == [type |-> "number", n |-> n]
SearchBody(q, b, m) == [query |-> q, budget |-> b, max_results |-> m]

\* no search request is made
NoSearch ==
  /\ GEMINI_API_URL = FALSE
  /\ searchBody = SearchBody(Absent, Absent, Absent)
  /\ data = Undefined

NoResp == [status |-> NoStatus, created |-> FALSE, reason |-> "", body |-> <<>>]
Resp(st, why) == [status |-> st, created |-> FALSE, reason |-> why, body |-> <<>>]
\* res.json(list)
RespList(l) == [status |-> StatusOK, created |-> FALSE, reason |-> "", body |-> l]

\* one entry of ioLog
Ev(o, a, st, isOk, sh, l, d) ==
  [op |-> o, attempt |-> a, status |-> st, ok |-> isOk, sha |-> sh, list |-> l, delay |-> d]
ReadEv(o, a, r) == Ev(o, a, r.http, r.ok, r.sha, r.list, 0)

InitRemote ==
  /\ NoSearch
  /\ GITHUB_TOKEN \in BOOLEAN
  /\ repoFile \in InitialFiles
  /\ now = FirstClock
  /\ pc = [p \in Procs |-> "idle"]
  /\ kind = [p \in Procs |-> "none"]
  /\ item = [p \in Procs |-> NoComment]
  /\ delId = [p \in Procs |-> 0]
  /\ next = [p \in Procs |-> <<>>]
  /\ attempt = [p \in Procs |-> 0]
  /\ currentSha = [p \in Procs |-> NullSha]
  /\ ioLog = [p \in Procs |-> <<>>]
  /\ resp = [p \in Procs |-> NoResp]
  /\ dataFile = AbsentFile
  /\ heap = <<>>
  /\ commentsCache = Null
  /\ writing = FALSE
  /\ newList = [p \in Procs |-> Null]
  /\ wdata = [p \in Procs |-> <<>>]
  /\ wfail = [p \in Procs |-> FALSE]

\* the handler sends its response and ends
Finish(p, r) ==
  /\ pc' = [pc EXCEPT ![p] = "done"]
  /\ resp' = [resp EXCEPT ![p] = r]

Log(p, e) == ioLog' = [ioLog EXCEPT ![p] = Append(@, e)]

\* the response of the handler's catch block: 500 with the error's message
Failed(p, why) == Finish(p, Resp(StatusServerError, why))

\* res.status(201).json(item) / res.status(204).end()
Succeeded(p) ==
  Finish(p, Resp(IF kind[p] = "post" THEN StatusCreated ELSE StatusNoContent, ""))

(***************************************************************************)
(* app.post('/api/comments'): up to the first await.                       *)
(***************************************************************************)
PostReceive(p) ==
  /\ pc[p] = "idle"
  /\ \E body \in Bodies(p) :
       LET name == trim(body.name)
           text == trim(body.text)
       IN /\ kind' = [kind EXCEPT ![p] = "post"]
          /\ item' = [item EXCEPT ![p] = Comment(0, name, text, toISOString(0))]
          /\ IF ~required(name, text)
               THEN Finish(p, Resp(StatusBadRequest, "name and comment text are required"))
               ELSE /\ pc' = [pc EXCEPT ![p] = "h_read"]
                    /\ resp' = resp
  /\ UNCHANGED <<GITHUB_TOKEN, repoFile, now, delId, next, attempt, currentSha, ioLog, localOnly, searchOnly>>

\* the handler's read returns: the item is built, next computed, and
\* saveCommentsToGitHub runs up to its first read
PostRead(p) ==
  /\ pc[p] = "h_read"
  /\ kind[p] = "post"
  /\ \E fault \in GetFaults, t \in {now, now + 1} :
       LET r == readCommentsFromGitHub(repoFile, fault)
           it == Comment(t, sanitizeOf(p, item[p].name), sanitizeOf(p, item[p].text), toISOString(t))
       IN /\ t <= LastClock
          /\ Log(p, ReadEv("hread", 0, r))
          /\ IF r.ok
               THEN /\ now' = t
                    /\ item' = [item EXCEPT ![p] = it]
                    /\ next' = [next EXCEPT ![p] = PostNext(it, r.list)]
                    /\ attempt' = [attempt EXCEPT ![p] = 0]
                    /\ pc' = [pc EXCEPT ![p] = "s_read"]
                    /\ resp' = resp
               ELSE /\ Failed(p, "github error")
                    /\ UNCHANGED <<now, item, next, attempt>>
  /\ UNCHANGED <<GITHUB_TOKEN, repoFile, kind, delId, currentSha, localOnly, searchOnly>>

(***************************************************************************)
(* app.get('/api/comments')                                                *)
(***************************************************************************)
GetReceive(p) ==
  /\ pc[p] = "idle"
  /\ kind' = [kind EXCEPT ![p] = "get"]
  /\ pc' = [pc EXCEPT ![p] = "h_read"]
  /\ UNCHANGED <<GITHUB_TOKEN, repoFile, now, item, delId, next, attempt, currentSha, ioLog, resp, localOnly, searchOnly>>

GetRead(p) ==
  /\ pc[p] = "h_read"
  /\ kind[p] = "get"
  /\ \E fault \in GetFaults :
       LET r == readCommentsFromGitHub(repoFile, fault)
       IN /\ Log(p, ReadEv("hread", 0, r))
          /\ IF r.ok
               THEN Finish(p, RespList(sort(r.list)))
               ELSE Failed(p, "failed to read comments")
  /\ UNCHANGED <<GITHUB_TOKEN, repoFile, now, kind, item, delId, next, attempt, currentSha, localOnly, searchOnly>>

(***************************************************************************)
(* app.delete('/api/comments/:id')                                         *)
(***************************************************************************)
DeleteReceive(p) ==
  /\ pc[p] = "idle"
  /\ \E id \in Ids(p) :
       /\ kind' = [kind EXCEPT ![p] = "delete"]
       /\ delId' = [delId EXCEPT ![p] = id]
       /\ pc' = [pc EXCEPT ![p] = "h_read"]
  /\ UNCHANGED <<GITHUB_TOKEN, repoFile, now, item, next, attempt, currentSha, ioLog, resp, localOnly, searchOnly>>

DeleteRead(p) ==
  /\ pc[p] = "h_read"
  /\ kind[p] = "delete"
  /\ \E fault \in GetFaults :
       LET r == readCommentsFromGitHub(repoFile, fault)
           nx == DeleteNext(r.list, delId[p])
       IN /\ Log(p, ReadEv("hread", 0, r))
          /\ IF ~r.ok
               THEN /\ Failed(p, "github error")
                    /\ UNCHANGED <<next, attempt>>
             ELSE IF NotFound(nx, r.list)
               THEN /\ Finish(p, Resp(StatusNotFound, "not found"))
                    /\ UNCHANGED <<next, attempt>>
             ELSE /\ next' = [next EXCEPT ![p] = nx]
                  /\ attempt' = [attempt EXCEPT ![p] = 0]
                  /\ pc' = [pc EXCEPT ![p] = "s_read"]
                  /\ resp' = resp
  /\ UNCHANGED <<GITHUB_TOKEN, repoFile, now, kind, item, delId, currentSha, localOnly, searchOnly>>


(***************************************************************************)
(* saveCommentsToGitHub(list): one read, one put and, on a conflict, one   *)
(* timer wait per attempt.                                                 *)
(***************************************************************************)
\* const { sha: currentSha } = await readCommentsFromGitHub()
AttemptShaReused(p, r) == IF attempt[p] = 0 THEN r.sha ELSE currentSha[p]
AttemptSha(p, r) == r.sha

\* the catch block of the loop
Caught(p, status) ==
  IF IsConflict(status)
    THEN /\ pc' = [pc EXCEPT ![p] = "s_wait"]
         /\ resp' = resp
    ELSE Failed(p, "github error")

SaveRead(p) ==
  /\ pc[p] = "s_read"
  /\ \E fault \in GetFaults :
       LET r == readCommentsFromGitHub(repoFile, fault)
       IN /\ Log(p, ReadEv("read", attempt[p], r))
          /\ IF r.ok
               THEN /\ currentSha' = [currentSha EXCEPT ![p] = AttemptSha(p, r)]
                    /\ pc' = [pc EXCEPT ![p] = "s_put"]
                    /\ resp' = resp
               ELSE /\ Caught(p, r.status)
                    /\ currentSha' = currentSha
  /\ UNCHANGED <<GITHUB_TOKEN, repoFile, now, kind, item, delId, next, attempt, localOnly, searchOnly>>

\* the result of initializeCommentsFileIfMissing after its put
InitPutResult(status) ==
  IF PutSucceeded(status)
    THEN [status |-> StatusOK, created |-> TRUE, reason |-> "created file", body |-> <<>>]
    ELSE Resp(StatusOK, "failed to create file")

\* a pending githubPutFile answers: of the save loop (pc = "s_put") or of
\* initializeCommentsFileIfMissing (pc = "i_put")
PutFile(p) ==
  /\ pc[p] \in {"s_put", "i_put"}
  /\ \E fault \in PutFaults :
       LET l == IF pc[p] = "i_put" THEN <<>> ELSE next[p]
           sha == IF pc[p] = "i_put" THEN NullSha ELSE currentSha[p]
           res == githubPutFile(repoFile, GITHUB_TOKEN, l, sha, fault)
       IN /\ repoFile' = res.file
          /\ Log(p, Ev("put", attempt[p], res.status, PutSucceeded(res.status), sha, l, 0))
          /\ IF pc[p] = "i_put" THEN Finish(p, InitPutResult(res.status))
             ELSE IF PutSucceeded(res.status) THEN Succeeded(p)
             ELSE Caught(p, res.status)
  /\ UNCHANGED <<GITHUB_TOKEN, now, kind, item, delId, next, attempt, currentSha, localOnly, searchOnly>>

\* the timer of the catch block fires; continue; attempt++; loop test
SaveWait(p) ==
  /\ pc[p] = "s_wait"
  /\ Log(p, Ev("wait", attempt[p], NoStatus, TRUE, NullSha, <<>>, Delay(attempt[p])))
  /\ attempt' = [attempt EXCEPT ![p] = @ + 1]
  /\ IF LoopContinues(attempt[p] + 1)
       THEN /\ pc' = [pc EXCEPT ![p] = "s_read"]
            /\ resp' = resp
       ELSE Failed(p, "concurrent updates")
  /\ UNCHANGED <<GITHUB_TOKEN, repoFile, now, kind, item, delId, next, currentSha, localOnly, searchOnly>>

(***************************************************************************)
(* app.get('/api/comments/init') and initializeCommentsFileIfMissing       *)
(***************************************************************************)
InitReceive(p) ==
  /\ pc[p] = "idle"
  /\ kind' = [kind EXCEPT ![p] = "init"]
  /\ pc' = [pc EXCEPT ![p] = "i_read"]
  /\ UNCHANGED <<GITHUB_TOKEN, repoFile, now, item, delId, next, attempt, currentSha, ioLog, resp, localOnly, searchOnly>>

\* if (status === 404) in the catch block: the file is to be created
InitNeedsCreateAlso(r) == TRUE
InitNeedsCreate(r) == ~r.ok /\ r.status = StatusNotFound

InitRead(p) ==
  /\ pc[p] = "i_read"
  /\ \E fault \in GetFaults :
       LET r == readCommentsFromGitHub(repoFile, fault)
       IN /\ Log(p, ReadEv("iread", 0, r))
          /\ IF InitNeedsCreate(r)
               THEN IF ~GITHUB_TOKEN
                      THEN Finish(p, Resp(StatusOK, "GITHUB_TOKEN not configured"))
                      ELSE /\ pc' = [pc EXCEPT ![p] = "i_put"]
                           /\ resp' = resp
             ELSE IF r.ok
               THEN Finish(p, Resp(StatusOK, "file exists"))
             ELSE Finish(p, Resp(StatusOK, "unexpected error"))
  /\ UNCHANGED <<GITHUB_TOKEN, repoFile, now, kind, item, delId, next, attempt, currentSha, localOnly, searchOnly>>

NextRemote ==
  \E p \in Procs :
    \/ PostReceive(p)
    \/ PostRead(p)
    \/ DeleteReceive(p)
    \/ DeleteRead(p)
    \/ SaveRead(p)
    \/ PutFile(p)
    \/ SaveWait(p)
    \/ InitReceive(p)
    \/ InitRead(p)

SpecRemote == InitRemote /\ [][NextRemote]_vars

(***************************************************************************)
(* The remote-blob variant with a store that never fails on its own: every *)
(* exchange is answered from the state of the file (no server error, no    *)
(* conflict other than a stale or missing sha).                            *)
(***************************************************************************)
\* the entry a step appends to p's log, if it appends one
StoreAnswered(p) ==
  LET e == ioLog'[p][Len(ioLog'[p])] IN
  IF e.op = "put"
    THEN e.status = githubPutFile(repoFile, GITHUB_TOKEN, e.list, e.sha, StatusOK).status
  ELSE IF e.op = "wait" THEN TRUE
  ELSE e.status = githubGetFile(repoFile, StatusOK)
StoreDecides ==
  \A p \in Procs : Len(ioLog'[p]) > Len(ioLog[p]) => StoreAnswered(p)

NextStore ==
  \E p \in Procs :
    \/ PostReceive(p) /\ StoreDecides
    \/ PostRead(p) /\ StoreDecides
    \/ DeleteReceive(p) /\ StoreDecides
    \/ DeleteRead(p) /\ StoreDecides
    \/ SaveRead(p) /\ StoreDecides
    \/ PutFile(p) /\ StoreDecides
    \/ SaveWait(p) /\ StoreDecides
    \/ InitReceive(p) /\ StoreDecides
    \/ InitRead(p) /\ StoreDecides

SpecStore == InitRemote /\ [][NextStore]_vars


(***************************************************************************)
(* The local-file variant (src/unnamed/part_001).                          *)
(*                                                                         *)
(* Arrays are objects: the cache, a handler's list and the argument of     *)
(* saveComments may be one array, which unshift changes in place. heap     *)
(* holds the arrays made so far; a reference is an index into it.          *)
(***************************************************************************)
ArrayObj(l) == [kind |-> "array", list |-> l]
\* what JSON.parse returns for valid JSON that is not an array, e.g. {}
PlainObj == [kind |-> "object", list |-> <<>>]

InitLocal ==
  /\ NoSearch
  /\ dataFile \in InitialFiles
  /\ \/ heap = <<>> /\ commentsCache = Null
     \/ dataFile.kind = "array" /\ heap = <<ArrayObj(dataFile.list)>> /\ commentsCache = 1
  /\ writing = FALSE
  /\ newList = [p \in LocalProcs |-> Null]
  /\ wdata = [p \in LocalProcs |-> <<>>]
  /\ wfail = [p \in LocalProcs |-> FALSE]
  /\ now = FirstClock
  /\ pc = [p \in LocalProcs |-> "idle"]
  /\ kind = [p \in LocalProcs |-> "none"]
  /\ item = [p \in LocalProcs |-> NoComment]
  /\ delId = [p \in LocalProcs |-> 0]
  /\ resp = [p \in LocalProcs |-> NoResp]
  /\ GITHUB_TOKEN = FALSE
  /\ repoFile = AbsentFile
  /\ next = [p \in LocalProcs |-> <<>>]
  /\ attempt = [p \in LocalProcs |-> 0]
  /\ currentSha = [p \in LocalProcs |-> NullSha]
  /\ ioLog = [p \in LocalProcs |-> <<>>]

\* while (writing) { await ... }: the loop is left when this holds
MayWriteAlways(w) == TRUE
MayWrite(w) == ~w

\* saveComments(newList) up to its first await, newList being heap object ref of h
saveCommentsEnter(p, ref, h) ==
  /\ heap' = h
  /\ commentsCache' = ref
  /\ newList' = [newList EXCEPT ![p] = ref]
  /\ resp' = resp
  /\ IF MayWrite(writing)
       THEN /\ writing' = TRUE
            /\ wdata' = [wdata EXCEPT ![p] = h[ref].list]
            /\ pc' = [pc EXCEPT ![p] = "sv_write"]
       ELSE /\ UNCHANGED <<writing, wdata>>
            /\ pc' = [pc EXCEPT ![p] = "sv_wait"]

\* the handler of kind k after `await loadComments()` gave it object ref of h, the
\* cache being c: up to the first await of saveComments
AfterLoad(p, k, it, id, ref, h, c) ==
  IF h[ref].kind # "array"
    THEN \* TypeError (list.unshift / list.filter is not a function): the async
         \* handler rejects and sends nothing
         /\ heap' = h
         /\ commentsCache' = c
         /\ pc' = [pc EXCEPT ![p] = "rejected"]
         /\ UNCHANGED <<newList, writing, wdata, resp>>
  ELSE IF k = "get"
    THEN \* list.sort(...) sorts the array it was given in place
         /\ heap' = [h EXCEPT ![ref].list = sort(@)]
         /\ commentsCache' = c
         /\ Finish(p, RespList(sort(h[ref].list)))
         /\ UNCHANGED <<newList, writing, wdata>>
  ELSE IF k = "post"
    THEN saveCommentsEnter(p, ref, [h EXCEPT ![ref].list = <<it>> \o @])
  ELSE LET nx == DeleteNext(h[ref].list, id) IN
       IF NotFound(nx, h[ref].list)
         THEN /\ heap' = h
              /\ commentsCache' = c
              /\ Finish(p, Resp(StatusNotFound, "not found"))
              /\ UNCHANGED <<newList, writing, wdata>>
         ELSE saveCommentsEnter(p, Len(h) + 1, Append(h, ArrayObj(nx)))

\* loadComments() up to its first await: the cached array, or ensureStore and
\* fs.readFile
loadCommentsEnter(p, k, it, id) ==
  IF commentsCache # Null
    THEN AfterLoad(p, k, it, id, commentsCache, heap, commentsCache)
    ELSE /\ pc' = [pc EXCEPT ![p] = IF dataFile.kind = "absent" THEN "es_write" ELSE "ld_read"]
         /\ UNCHANGED <<heap, commentsCache, newList, writing, wdata, resp>>

\* the error the validation of the local-file server answers with, "" when
\* the body passes
Invalid(name, text) ==
  IF ~required(name, text) THEN "name and comment text are required"
  ELSE IF Len(name) > MaxNameLength THEN "name must be 100 characters or less"
  ELSE IF Len(text) > MaxTextLength THEN "comment text must be 1000 characters or less"
  ELSE ""

LocalPostReceive(p) ==
  /\ pc[p] = "idle"
  /\ \E body \in Bodies(p), t \in {now, now + 1} :
       LET name == trim(body.name)
           text == trim(body.text)
           it == Comment(t, sanitize(name), sanitize(text), toISOString(t))
       IN /\ t <= LastClock
          /\ kind' = [kind EXCEPT ![p] = "post"]
          /\ IF Invalid(name, text) # ""
               THEN /\ Finish(p, Resp(StatusBadRequest, Invalid(name, text)))
                    /\ item' = [item EXCEPT ![p] = Comment(0, name, text, toISOString(0))]
                    /\ UNCHANGED <<now, heap, commentsCache, newList, writing, wdata>>
               ELSE /\ now' = t
                    /\ item' = [item EXCEPT ![p] = it]
                    /\ loadCommentsEnter(p, "post", it, 0)
  /\ UNCHANGED <<delId, dataFile, wfail, remoteOnly, searchOnly>>

LocalGetReceive(p) ==
  /\ pc[p] = "idle"
  /\ kind' = [kind EXCEPT ![p] = "get"]
  /\ loadCommentsEnter(p, "get", NoComment, 0)
  /\ UNCHANGED <<now, item, delId, dataFile, wfail, remoteOnly, searchOnly>>

LocalDeleteReceive(p) ==
  /\ pc[p] = "idle"
  /\ \E id \in Ids(p) :
       /\ kind' = [kind EXCEPT ![p] = "delete"]
       /\ delId' = [delId EXCEPT ![p] = id]
       /\ loadCommentsEnter(p, "delete", NoComment, id)
  /\ UNCHANGED <<now, item, dataFile, wfail, remoteOnly, searchOnly>>

\* the fs.writeFile(COMMENTS_FILE, '[]') of ensureStore ends; if it threw,
\* loadComments catches and caches a new []
EnsureStoreDone(p) ==
  /\ pc[p] = "es_write"
  /\ \E written \in BOOLEAN :
       /\ IF written
         THEN /\ dataFile' = ArrayFile(<<>>)
              /\ pc' = [pc EXCEPT ![p] = "ld_read"]
              /\ UNCHANGED <<heap, commentsCache, newList, writing, wdata, resp>>
         ELSE /\ dataFile' = dataFile
              /\ AfterLoad(p, kind[p], item[p], delId[p], Len(heap) + 1,
                           Append(heap, ArrayObj(<<>>)), Len(heap) + 1)
       /\ wfail' = [wfail EXCEPT ![p] = ~written]
  /\ UNCHANGED <<now, kind, item, delId, remoteOnly, searchOnly>>

\* JSON.parse(raw || '[]') of the file's text; a throw is caught and gives []
ParseFile(f) ==
  IF f.kind = "array" THEN ArrayObj(f.list)
  ELSE IF f.kind = "nonarray" THEN PlainObj
  ELSE ArrayObj(<<>>)

\* the fs.readFile of loadComments ends: the cache is set and the handler goes on
LoadDone(p) ==
  /\ pc[p] = "ld_read"
  /\ AfterLoad(p, kind[p], item[p], delId[p], Len(heap) + 1,
               Append(heap, ParseFile(dataFile)), Len(heap) + 1)
  /\ UNCHANGED <<now, kind, item, delId, dataFile, wfail, remoteOnly, searchOnly>>

\* a timer of the wait loop fires and finds writing false
SaveWake(p) ==
  /\ pc[p] = "sv_wait"
  /\ MayWrite(writing)
  /\ writing' = TRUE
  /\ wdata' = [wdata EXCEPT ![p] = heap[newList[p]].list]
  /\ pc' = [pc EXCEPT ![p] = "sv_write"]
  /\ UNCHANGED <<now, kind, item, delId, resp, dataFile, heap, commentsCache, newList, wfail, remoteOnly, searchOnly>>

\* finally { writing = false }: the flag after the write, which threw or not
AfterWriteKeptOnError(written) == ~written
AfterWrite(written) == FALSE

\* the fs.writeFile of saveComments ends (an error is logged and dropped);
\* finally writing = false; the handler responds
SaveWriteDone(p) ==
  /\ pc[p] = "sv_write"
  /\ \E written \in BOOLEAN :
       /\ dataFile' = IF written THEN ArrayFile(wdata[p]) ELSE dataFile
       /\ wfail' = [wfail EXCEPT ![p] = @ \/ ~written]
       /\ writing' = AfterWrite(written)
  /\ Succeeded(p)
  /\ UNCHANGED <<now, kind, item, delId, heap, commentsCache, newList, wdata, remoteOnly, searchOnly>>

NextLocal ==
  \E p \in LocalProcs :
    \/ LocalPostReceive(p)
    \/ LocalDeleteReceive(p)
    \/ EnsureStoreDone(p)
    \/ LoadDone(p)
    \/ SaveWake(p)
    \/ SaveWriteDone(p)

SpecLocal == InitLocal /\ [][NextLocal]_vars

\* The local-file server after its first load: every request finds the cache
\* and goes from its handler straight into saveComments. Every fs.writeFile
\* of saveComments ends, and the 30 ms timers of the wait loop keep firing: a
\* waiting call that finds the flag clear from some time on leaves the loop.
InitSaves == InitLocal /\ commentsCache # Null

NextSaves ==
  \E p \in LocalProcs :
    \/ LocalPostReceive(p)
    \/ LocalDeleteReceive(p)
    \/ SaveWake(p)
    \/ SaveWriteDone(p)

SpecSaves ==
  /\ InitSaves
  /\ [][NextSaves]_vars
  /\ \A p \in LocalProcs : WF_vars(SaveWriteDone(p)) /\ WF_vars(SaveWake(p))

\* the same with the first load included
SpecLocalFair ==
  /\ InitLocal
  /\ [][NextLocal]_vars
  /\ \A p \in LocalProcs : WF_vars(SaveWriteDone(p)) /\ WF_vars(SaveWake(p))

(***************************************************************************)
(* One client at a time.                                                   *)
(*                                                                         *)
(* A client of either server sends a request, gets the response, and sends *)
(* the next request at a later clock reading; no two requests overlap. The *)
(* handlers are the ones above; the collection the client finds and the    *)
(* bodies it submits range over more cases.                                *)
(***************************************************************************)
\* a comment created i ms before the clock's origin
Stored(i) == Comment(0 - i, <<"Z">>, <<"x">>, toISOString(0 - i))
NewestFirst(n) == [i \in 1..n |-> Stored(i)]
OldestFirst(n) == [i \in 1..n |-> Stored(n + 1 - i)]
\* a second comment with the id of the first
WithDuplicate(n) == NewestFirst(n) \o <<Comment(0 - 1, <<"Y">>, <<"x">>, toISOString(0 - 1))>>

SeqLists ==
  {NewestFirst(n) : n \in 0..MaxStored} \cup {OldestFirst(n) : n \in 2..MaxStored}
    \cup {WithDuplicate(MaxStored - 1)}
SeqFiles == {AbsentFile, NonArrayFile, MalformedFile} \cup {ArrayFile(l) : l \in SeqLists}
\* a collection that has reached the cap of the remote-blob server
FullFile == ArrayFile(NewestFirst(MaxItems))

\* the server of the clients P runs and has received no request; the other
\* server, of the clients Q, does not run
Idle(P, Q) ==
  /\ pc = [p \in P \cup Q |-> IF p \in P THEN "idle" ELSE "off"]
  /\ kind = [p \in P \cup Q |-> "none"]
  /\ item = [p \in P \cup Q |-> NoComment]
  /\ delId = [p \in P \cup Q |-> 0]
  /\ next = [p \in P \cup Q |-> <<>>]
  /\ attempt = [p \in P \cup Q |-> 0]
  /\ currentSha = [p \in P \cup Q |-> NullSha]
  /\ ioLog = [p \in P \cup Q |-> <<>>]
  /\ resp = [p \in P \cup Q |-> NoResp]
  /\ newList = [p \in P \cup Q |-> Null]
  /\ wdata = [p \in P \cup Q |-> <<>>]
  /\ wfail = [p \in P \cup Q |-> FALSE]

InitApi ==
  /\ NoSearch
  /\ now = FirstClock
  /\ writing = FALSE
  /\ \/ /\ GITHUB_TOKEN = TRUE
        /\ \/ /\ Idle(SeqProcs \ FirstRevision, FirstRevision \cup FileProcs)
              /\ repoFile \in SeqFiles \cup {FullFile}
           \/ /\ Idle(FirstRevision, (SeqProcs \ FirstRevision) \cup FileProcs)
              /\ repoFile \in {AbsentFile, ArrayFile(NewestFirst(1))}
        /\ dataFile = AbsentFile
        /\ heap = <<>>
        /\ commentsCache = Null
     \/ /\ Idle(FileProcs, SeqProcs)
        /\ GITHUB_TOKEN = FALSE
        /\ repoFile = AbsentFile
        /\ dataFile \in SeqFiles
        /\ \/ heap = <<>> /\ commentsCache = Null
           \/ dataFile.kind = "array" /\ heap = <<ArrayObj(dataFile.list)>> /\ commentsCache = 1

\* the client has its response (or, its handler having thrown, none) and sends
\* its next request at the last clock reading
Recycle(p) ==
  /\ pc[p] \in {"done", "rejected"}
  /\ now < LastClock
  /\ now' = LastClock
  /\ pc' = [pc EXCEPT ![p] = "idle"]
  /\ kind' = [kind EXCEPT ![p] = "none"]
  /\ item' = [item EXCEPT ![p] = NoComment]
  /\ delId' = [delId EXCEPT ![p] = 0]
  /\ next' = [next EXCEPT ![p] = <<>>]
  /\ attempt' = [attempt EXCEPT ![p] = 0]
  /\ currentSha' = [currentSha EXCEPT ![p] = NullSha]
  /\ ioLog' = [ioLog EXCEPT ![p] = <<>>]
  /\ resp' = [resp EXCEPT ![p] = NoResp]
  /\ newList' = [newList EXCEPT ![p] = Null]
  /\ wdata' = [wdata EXCEPT ![p] = <<>>]
  /\ wfail' = [wfail EXCEPT ![p] = FALSE]
  /\ UNCHANGED <<GITHUB_TOKEN, repoFile, dataFile, heap, commentsCache, writing, searchOnly>>

NextApi ==
  \/ \E p \in SeqProcs :
       \/ GetReceive(p)
       \/ GetRead(p)
       \/ PostReceive(p)
       \/ PostRead(p)
       \/ DeleteReceive(p)
       \/ DeleteRead(p)
       \/ SaveRead(p)
       \/ PutFile(p)
       \/ SaveWait(p)
  \/ \E p \in FileProcs :
       \/ LocalGetReceive(p)
       \/ LocalPostReceive(p)
       \/ LocalDeleteReceive(p)
       \/ EnsureStoreDone(p)
       \/ LoadDone(p)
       \/ SaveWriteDone(p)
  \/ \E p \in SeqProcs \cup FileProcs : Recycle(p)

SpecApi == InitApi /\ [][NextApi]_vars

(***************************************************************************)
(* app.post('/api/gemini-search') and callGemini.                          *)
(*                                                                         *)
(* One search request: the handler validates the body, callGemini posts    *)
(* the prompt to the provider, and the provider's response, which is the   *)
(* environment's choice, is normalized to the array the handler sends.     *)
(***************************************************************************)
SearchProcs == {"g1"}

\* 'affordable', 'moderate', 'luxury'
Affordable == Text(<<"a", "f", "f", "o", "r", "d", "a", "b", "l", "e">>)
Moderate == Text(<<"m", "o", "d", "e", "r", "a", "t", "e">>)
Luxury == Text(<<"l", "u", "x", "u", "r", "y">>)

\* const { query, budget = 'affordable', max_results = 6 } = req.body || {}
budgetOf(body) == IF body.budget = Absent THEN Affordable ELSE body.budget
max_resultsOf(body) ==
  IF body.max_results = Absent THEN Number(DefaultResults) ELSE body.max_results

\* !query: undefined, '' and 0 are falsy
Falsy(v) ==
  \/ v = Absent
  \/ (v.type = "string" /\ v.chars = <<>>)
  \/ (v.type = "number" /\ v.n = 0)

\* the validation with the test of the query alone
InvalidSearchQueryOnly(body) ==
  IF Falsy(body.query) \/ body.query.type # "string" THEN "query is required" ELSE ""

\* the validation of the handler: the message of the 400 response, or "" when
\* the request passes
InvalidSearch(body) ==
  LET query == body.query
      budget == budgetOf(body)
      max_results == max_resultsOf(body)
  IN IF Falsy(query) \/ query.type # "string" THEN "query is required"
     ELSE IF Len(query.chars) > MaxQueryLength
            THEN "query must be 500 characters or less"
     ELSE IF budget \notin {Affordable, Moderate, Luxury}
            THEN "budget must be one of: affordable, moderate, luxury"
     ELSE IF \/ max_results.type # "number"
             \/ max_results.n < MinResults
             \/ max_results.n > MaxResults
            THEN "max_results must be a number between 1 and 20"
     ELSE ""

\* the bodies of the search requests
SearchBodies ==
  { SearchBody(Text(<<"s", "k", "i">>), Absent, Absent),
    SearchBody(Text(<<"s", "k", "i">>), Luxury, Number(MaxResults)),
    SearchBody(Text(Chars(MaxQueryLength)), Moderate, Number(MinResults)),
    SearchBody(Absent, Absent, Absent),
    SearchBody(Text(<<>>), Affordable, Number(DefaultResults)),
    SearchBody(Number(7), Affordable, Number(DefaultResults)),
    SearchBody(Text(Chars(MaxQueryLength + 1)), Affordable, Number(DefaultResults)),
    SearchBody(Text(<<"s", "k", "i">>), Text(<<"f", "r", "e", "e">>), Number(DefaultResults)),
    SearchBody(Text(<<"s", "k", "i">>), Number(1), Number(DefaultResults)),
    SearchBody(Text(<<"s", "k", "i">>), Affordable, Number(MinResults - 1)),
    SearchBody(Text(<<"s", "k", "i">>), Affordable, Number(MaxResults + 1)),
    SearchBody(Text(<<"s", "k", "i">>), Affordable, Text(<<"5">>)) }

\* the travel options of the provider's responses
Option(x) == JObj(<< <<Key("title"), JStr(<<Wd(x)>>)>> >>)
\* a text that is the JSON of v, and one that has it among other words
JsonOf(v) == JStr(stringify(v))
Prose(v) == JStr(<<Wd("Here"), Wd("you"), Wd("go")>> \o stringify(v) \o <<Wd("thanks")>>)

\* the object with the fields that are not undefined
Fields(r, ot, o, t, c) ==
  JObj(SelectSeq(<< <<Key("results"), r>>, <<Key("output_text"), ot>>, <<Key("output"), o>>,
                    <<Key("text"), t>>, <<Key("candidates"), c>> >>,
                 LAMBDA pr : pr[2] # Undefined))

ResultsFields == {Undefined, JNull, JStr(<<Wd("none")>>), JArr(<<>>), JArr(<<Option("X")>>)}
\* '[note] [{"title":"Y"}]': an array after a bracketed word
Noted(v) == JStr(<<Pt("["), Wd("note"), Pt("]")>> \o stringify(v))
OutputTextFields ==
  { Undefined, JsonOf(JArr(<<Option("Y")>>)), Prose(JArr(<<Option("Y")>>)), JStr(<<Wd("sorry")>>),
    Noted(JArr(<<Option("N")>>)) }
OutputFields ==
  { Undefined,
    JsonOf(JObj(<< <<Key("results"), JArr(<<Option("Z")>>)>> >>)),
    JsonOf(JStr(<<Wd("plain")>>)),
    JsonOf(JObj(<< <<Key("items"), JArr(<<Option("Q")>>)>> >>)),
    JArr(<<Option("Z")>>) }
TextFields == {Undefined, JStr(<<>>), Prose(JArr(<<Option("T")>>))}
CandidatesFields ==
  { Undefined,
    JArr(<< JObj(<< <<Key("output"), JStr(<<Pt("["), Lit(<<Wd("a")>>)>>)>> >>),
            JObj(<< <<Key("output"), JStr(<<Pt(","), Lit(<<Wd("b")>>), Pt("]")>>)>> >>) >>),
    JObj(<<>>) }

\* response.data: what the provider may answer
ProviderBodies ==
  {JNull, Undefined, JStr(<<>>), Prose(JArr(<<Option("X")>>))}
    \cup { JArr(<<>>), JArr(<<Option("X")>>),
           JArr(<<JObj(<< <<Key("results"), JArr(<<Option("Y")>>)>> >>)>>),
           JArr(<<JsonOf(JArr(<<Option("Y")>>))>>) }
    \cup { Fields(r, ot, o, t, c) :
             r \in ResultsFields, ot \in OutputTextFields, o \in OutputFields,
             t \in TextFields, c \in CandidatesFields }

\* res.json({ results })
RespResults(l) == [status |-> StatusOK, created |-> FALSE, reason |-> "", body |-> l]
\* results as the response carries it: the elements of the array (a value that
\* is no array would be sent as it is)
resultsOf(v) == IF isArray(v) THEN v.arr ELSE <<v>>

\* the catch block of the handler: the error is logged on the server and the
\* response has a fixed message; err is what was thrown
GenericError == "Failed to process your request. Please try again later."
SearchFailedLeaks(p, err) ==
  Finish(p, [status |-> StatusBadGateway, created |-> FALSE, reason |-> GenericError,
             body |-> <<err>>])
SearchFailed(p, err) == Finish(p, Resp(StatusBadGateway, GenericError))

\* the statuses of the provider's responses that make axios.post reject;
\* NoStatus when there is no response (no connection, or the timeout)
ProviderFaults == {NoStatus, StatusServerError}
\* err.response.data of such a response
ErrorBodies == {Undefined, JStr(<<Wd("quota")>>), JArr(<<Option("E")>>)}

\* the handler up to the await of axios.post: the validation, and callGemini
\* up to the provider call
SearchReceive(p) ==
  /\ pc[p] = "idle"
  /\ \E body \in SearchBodies :
       /\ searchBody' = body
       /\ kind' = [kind EXCEPT ![p] = "search"]
       /\ IF InvalidSearch(body) # ""
            THEN /\ Finish(p, Resp(StatusBadRequest, InvalidSearch(body)))
                 /\ ioLog' = ioLog
            ELSE IF ~GEMINI_API_URL
                   THEN /\ SearchFailed(p, Undefined)
                        /\ ioLog' = ioLog
                   ELSE /\ pc' = [pc EXCEPT ![p] = "g_call"]
                        /\ Log(p, Ev("provider", 0, NoStatus, TRUE, NullSha, <<>>, 0))
                        /\ resp' = resp
  /\ UNCHANGED <<GITHUB_TOKEN, repoFile, now, item, delId, next, attempt, currentSha,
                 localOnly, GEMINI_API_URL, data>>

\* axios.post settles: it rejects (no connection, timeout, a status that is
\* not 2xx), or it resolves and the response's data is normalized; the log
\* has the status and the body of the provider's response
SearchReturn(p) ==
  /\ pc[p] = "g_call"
  /\ \/ \E st \in ProviderFaults, d \in ErrorBodies :
          /\ st = NoStatus => d = Undefined
          /\ data' = data
          /\ Log(p, Ev("settled", 0, st, FALSE, NullSha, <<d>>, 0))
          /\ SearchFailed(p, d)
     \/ \E d \in ProviderBodies :
          /\ data' = d
          /\ Log(p, Ev("settled", 0, StatusOK, TRUE, NullSha, <<d>>, 0))
          /\ IF normalize(d).ok
               THEN Finish(p, RespResults(resultsOf(normalize(d).val)))
               ELSE SearchFailed(p, d)
  /\ UNCHANGED <<now, kind, item, delId, GITHUB_TOKEN, repoFile, next, attempt, currentSha,
                 localOnly, GEMINI_API_URL, searchBody>>

InitSearch ==
  /\ Idle(SearchProcs, {})
  /\ now = FirstClock
  /\ GITHUB_TOKEN = FALSE
  /\ repoFile = AbsentFile
  /\ dataFile = AbsentFile
  /\ heap = <<>>
  /\ commentsCache = Null
  /\ writing = FALSE
  /\ GEMINI_API_URL \in BOOLEAN
  /\ searchBody = SearchBody(Absent, Absent, Absent)
  /\ data = Undefined

NextSearch ==
  \E p \in SearchProcs :
    \/ SearchReceive(p)
    \/ SearchReturn(p)

SpecSearch == InitSearch /\ [][NextSearch]_vars

(***************************************************************************)
(* app.post('/api/gemini-search') of the older local-file server           *)
(* (src/unnamed/part_000), with GEMINI_USE_OAUTH unset, and the two search *)
(* endpoints side by side: one of the two servers runs.                    *)
(***************************************************************************)
OlderSearchProcs == {"g0"}

\* if (!query || typeof query !== 'string')
InvalidSearchOlder(body) ==
  IF Falsy(body.query) \/ body.query.type # "string" THEN "query is required" ELSE ""

\* the catch block: 502 with detail: String(err.message || err)
SearchFailedOlder(p, message) ==
  Finish(p, [status |-> StatusBadGateway, created |-> FALSE,
             reason |-> "failed to query Gemini model", body |-> <<JStr(<<Wd(message)>>)>>])

\* the object with the fields that are not undefined
FieldsOlder(r, ot, c, pr, g) ==
  JObj(SelectSeq(<< <<Key("results"), r>>, <<Key("predictions"), pr>>,
                    <<Key("output_text"), ot>>, <<Key("candidates"), c>>,
                    <<Key("generations"), g>> >>,
                 LAMBDA f : f[2] # Undefined))

PredictionsFields ==
  { Undefined,
    JStr(<<Wd("none")>>),
    JArr(<<JNull>>),
    JArr(<<JsonOf(JArr(<<Option("P")>>))>>),
    JArr(<<JObj(<< <<Key("content"), Prose(JArr(<<Option("P")>>))>> >>)>>),
    JArr(<<JObj(<< <<Key("output"), JArr(<<Option("P")>>)>> >>)>>),
    JArr(<<JStr(<<Pt("["), Lit(<<Wd("a")>>)>>), JStr(<<Pt(","), Lit(<<Wd("b")>>), Pt("]")>>)>>) }
OlderCandidatesFields ==
  { Undefined,
    JObj(<<>>),
    JArr(<<JNull>>),
    JArr(<<JsonOf(JArr(<<Option("C")>>))>>),
    JArr(<< JObj(<< <<Key("output"), JStr(<<Pt("["), Lit(<<Wd("a")>>)>>)>> >>),
            JObj(<< <<Key("output"), JStr(<<Pt(","), Lit(<<Wd("b")>>), Pt("]")>>)>> >>) >>) }
GenerationsFields ==
  { Undefined,
    JArr(<<JNull>>),
    JArr(<<JObj(<<>>)>>),
    JArr(<<JObj(<< <<Key("text"), Prose(JArr(<<Option("G")>>))>> >>)>>) }

\* resp.data: what the provider may answer the older server
OlderBodies ==
  {JNull, Undefined, JStr(<<>>), Prose(JArr(<<Option("X")>>)), JArr(<<>>), JArr(<<Option("X")>>)}
    \cup { FieldsOlder(r, ot, c, pr, g) :
             r \in {Undefined, JNull, JArr(<<Option("X")>>)},
             ot \in {Undefined, JStr(<<Wd("sorry")>>), JsonOf(JArr(<<Option("Y")>>)),
                     Noted(JArr(<<Option("N")>>))},
             c \in OlderCandidatesFields, pr \in PredictionsFields, g \in GenerationsFields }

SearchReceiveOlder(p) ==
  /\ pc[p] = "idle"
  /\ \E body \in SearchBodies :
       /\ searchBody' = body
       /\ kind' = [kind EXCEPT ![p] = "search"]
       /\ IF InvalidSearchOlder(body) # ""
            THEN /\ Finish(p, Resp(StatusBadRequest, InvalidSearchOlder(body)))
                 /\ ioLog' = ioLog
            ELSE IF ~GEMINI_API_URL
                   THEN /\ SearchFailedOlder(p, "GEMINI_API_URL must be set in environment")
                        /\ ioLog' = ioLog
                   ELSE /\ pc' = [pc EXCEPT ![p] = "g_call"]
                        /\ Log(p, Ev("provider", 0, NoStatus, TRUE, NullSha, <<>>, 0))
                        /\ resp' = resp
  /\ UNCHANGED <<GITHUB_TOKEN, repoFile, now, item, delId, next, attempt, currentSha,
                 localOnly, GEMINI_API_URL, data>>

SearchReturnOlder(p) ==
  /\ pc[p] = "g_call"
  /\ \/ \E st \in ProviderFaults, d \in ErrorBodies :
          /\ st = NoStatus => d = Undefined
          /\ data' = data
          /\ Log(p, Ev("settled", 0, st, FALSE, NullSha, <<d>>, 0))
          /\ SearchFailedOlder(p, IF st = NoStatus THEN "timeout of 30000ms exceeded"
                                  ELSE "Request failed with status code 500")
     \/ \E d \in OlderBodies :
          /\ data' = d
          /\ Log(p, Ev("settled", 0, StatusOK, TRUE, NullSha, <<d>>, 0))
          /\ IF normalizeOlder(d).ok
               THEN Finish(p, RespResults(resultsOf(normalizeOlder(d).val)))
               ELSE SearchFailedOlder(p, normalizeOlder(d).error)
  /\ UNCHANGED <<now, kind, item, delId, GITHUB_TOKEN, repoFile, next, attempt, currentSha,
                 localOnly, GEMINI_API_URL, searchBody>>

InitSearches ==
  /\ \/ Idle(SearchProcs, OlderSearchProcs)
     \/ Idle(OlderSearchProcs, SearchProcs)
  /\ now = FirstClock
  /\ GITHUB_TOKEN = FALSE
  /\ repoFile = AbsentFile
  /\ dataFile = AbsentFile
  /\ heap = <<>>
  /\ commentsCache = Null
  /\ writing = FALSE
  /\ GEMINI_API_URL \in BOOLEAN
  /\ searchBody = SearchBody(Absent, Absent, Absent)
  /\ data = Undefined

NextSearches ==
  \/ \E p \in SearchProcs :
       \/ SearchReceive(p)
       \/ SearchReturn(p)
  \/ \E p \in OlderSearchProcs :
       \/ SearchReceiveOlder(p)
       \/ SearchReturnOlder(p)

SpecSearches == InitSearches /\ [][NextSearches]_vars

(***************************************************************************)
(* Outbound calls that may never be answered.                              *)
(*                                                                         *)
(* The steps GetRead, PostRead, DeleteRead, SaveRead, PutFile and          *)
(* SearchReturn are the settling of a pending axios promise. axios settles *)
(* a promise on its own only when the call was given a timeout; with none  *)
(* (the default, 0) an exchange the other side never answers stays pending.*)
(* A step of a call is therefore taken eventually only if the call carries *)
(* a timeout; the timer of the save loop always fires.                     *)
(***************************************************************************)
\* axios.get / axios.put of githubGetFile and githubPutFile: { headers, params },
\* no timeout option
StoreTimeout == 0
\* axios.post of callGemini: { headers, timeout: 20000 }
ProviderTimeout == 20000
\* the promise of a call with timeout t settles whatever the other side does
Settles(t) == t > 0

CallClients == (SeqProcs \ FirstRevision) \cup SearchProcs

InitCalls ==
  /\ now = FirstClock
  /\ writing = FALSE
  /\ dataFile = AbsentFile
  /\ heap = <<>>
  /\ commentsCache = Null
  /\ searchBody = SearchBody(Absent, Absent, Absent)
  /\ data = Undefined
  /\ \/ /\ Idle(SeqProcs \ FirstRevision, SearchProcs)
        /\ GITHUB_TOKEN = TRUE
        /\ repoFile \in {AbsentFile, ArrayFile(NewestFirst(1))}
        /\ GEMINI_API_URL = FALSE
     \/ /\ Idle(SearchProcs, SeqProcs \ FirstRevision)
        /\ GITHUB_TOKEN = FALSE
        /\ repoFile = AbsentFile
        /\ GEMINI_API_URL \in BOOLEAN

\* a pending call to the store settles
StoreReturn(p) ==
  \/ GetRead(p)
  \/ PostRead(p)
  \/ DeleteRead(p)
  \/ SaveRead(p)
  \/ PutFile(p)

NextCalls ==
  \/ \E p \in SeqProcs \ FirstRevision :
       \/ GetReceive(p)
       \/ PostReceive(p)
       \/ DeleteReceive(p)
       \/ StoreReturn(p)
       \/ SaveWait(p)
  \/ \E p \in SearchProcs :
       \/ SearchReceive(p)
       \/ SearchReturn(p)

SpecCalls ==
  /\ InitCalls
  /\ [][NextCalls]_vars
  /\ \A p \in SeqProcs \ FirstRevision :
       /\ WF_vars(SaveWait(p))
       /\ WF_vars(Settles(StoreTimeout) /\ StoreReturn(p))
  /\ \A p \in SearchProcs : WF_vars(Settles(ProviderTimeout) /\ SearchReturn(p))

(***************************************************************************)
(* Properties of the remote-blob variant.                                  *)
(***************************************************************************)
InList(c, l) == \E i \in 1..Len(l) : l[i] = c
HasId(l, id) == \E i \in 1..Len(l) : l[i].id = id

\* positions of the entries of p's log made by operation o
OpsOf(p, o) == {i \in 1..Len(ioLog[p]) : ioLog[p][i].op = o}
\* the puts of p that were answered with a version conflict
ConflictPuts(p) ==
  {i \in OpsOf(p, "put") : ioLog[p][i].status \in {StatusConflict, StatusUnprocessable}}

\* request p is a mutating request that has read the collection
Mutating(p) == kind[p] \in {"post", "delete"} /\ Len(ioLog[p]) > 0
\* the handler's own read, the first call a mutating request makes
HRead(p) == ioLog[p][1]
\* the read found a JSON array, or no file (the empty collection)
ReadCollection(e) == e.ok /\ (e.sha = NullSha \/ e.sha[1] = "array")

Answered(p, k, st) == kind[p] = k /\ pc[p] = "done" /\ resp[p].status = st

\* the mutation request p stands for, applied to the list l
Mutation(p, l) ==
  IF kind[p] = "post" THEN PostNext(item[p], l) ELSE DeleteNext(l, delId[p])

\* C1: two POSTs that started from the same stored collection and both
\* responded 201 leave both new comments in the stored collection; started
\* from [] they leave a collection of length 2.
C1_TwoPostsBothStored ==
  \A p, q \in Procs :
    ( /\ p # q
      /\ Answered(p, "post", StatusCreated)
      /\ Answered(q, "post", StatusCreated)
      /\ ReadCollection(HRead(p))
      /\ HRead(p).sha = HRead(q).sha )
    => /\ InList(item[p], repoFile.list)
       /\ InList(item[q], repoFile.list)
       /\ (HRead(p).list = <<>> => Len(repoFile.list) = 2)

\* C2: a POST (201) and a DELETE (204) of an existing comment with another id
\* leave the posted comment stored and the deleted one not stored.
C2_PostAndDeleteBothApplied ==
  \A p, q \in Procs :
    ( /\ Answered(p, "post", StatusCreated)
      /\ Answered(q, "delete", StatusNoContent)
      /\ ReadCollection(HRead(p))
      /\ ReadCollection(HRead(q))
      /\ item[p].id # delId[q] )
    => /\ InList(item[p], repoFile.list)
       /\ ~HasId(repoFile.list, delId[q])

\* C3: every put of the save loop writes the mutation applied to the list read
\* in the same attempt.
C3_WritesMutationOfAttemptRead ==
  \A p \in Procs :
    Mutating(p) =>
      \A i \in OpsOf(p, "put") :
        /\ i > 1
        /\ ioLog[p][i - 1].op = "read"
        /\ ioLog[p][i - 1].attempt = ioLog[p][i].attempt
        /\ ioLog[p][i].list = Mutation(p, ioLog[p][i - 1].list)

\* C4: the sha sent with a put is the sha returned by the read of the same
\* attempt, made after the wait that followed the previous attempt's
\* conflict; it is never a sha of an earlier attempt or of the handler's read.
C4_ShaFreshPerAttempt ==
  \A p \in Procs :
    Mutating(p) =>
      \A i \in OpsOf(p, "put") :
        /\ i > 1
        /\ ioLog[p][i - 1].op = "read"
        /\ ioLog[p][i - 1].ok
        /\ ioLog[p][i - 1].attempt = ioLog[p][i].attempt
        /\ ioLog[p][i].sha = ioLog[p][i - 1].sha
        /\ ioLog[p][i].attempt > 0 =>
             /\ i > 2
             /\ ioLog[p][i - 2].op = "wait"
             /\ ioLog[p][i - 2].attempt = ioLog[p][i].attempt - 1

\* a retry sent a sha that differs from the one the handler's read saw
C4_Witness ==
  \E p \in Procs :
    /\ Mutating(p)
    /\ \E i \in OpsOf(p, "put") :
         /\ ioLog[p][i].attempt > 0
         /\ ioLog[p][i].ok
         /\ ioLog[p][i].sha # HRead(p).sha

\* C5: a save makes at most 4 reads and 4 puts; after 4 conflicting puts it
\* fails with the 'concurrent updates' error and the handler responds 500.
C5_AtMostFourAttempts ==
  \A p \in Procs :
    /\ Cardinality(OpsOf(p, "put")) <= 4
    /\ Cardinality(OpsOf(p, "read")) <= 4
    /\ Cardinality(ConflictPuts(p)) = 4 =>
         /\ pc[p] \in {"s_wait", "done"}
         /\ pc[p] = "done" => resp[p] = Resp(StatusServerError, "concurrent updates")

C5_Witness ==
  \E p \in Procs :
    /\ Cardinality(ConflictPuts(p)) = 4
    /\ pc[p] = "done"
    /\ resp[p].status = StatusServerError

\* C6: a read or put of the save loop that fails with a status other than
\* 409/422 is the last thing the request does: nothing follows it in the log,
\* and the handler has responded 500.
C6_OtherFailureEndsSave ==
  \A p \in Procs :
    Mutating(p) =>
      \A i \in OpsOf(p, "read") \cup OpsOf(p, "put") :
        ( /\ ~ioLog[p][i].ok
          /\ ioLog[p][i].status \notin {StatusConflict, StatusUnprocessable} )
        => /\ i = Len(ioLog[p])
           /\ pc[p] = "done"
           /\ resp[p].status = StatusServerError

\* a put of a retry failed with a server error
C6_Witness ==
  \E p \in Procs :
    /\ Mutating(p)
    /\ Len(ioLog[p]) > 1
    /\ ioLog[p][Len(ioLog[p])].op = "put"
    /\ ioLog[p][Len(ioLog[p])].attempt > 0
    /\ ioLog[p][Len(ioLog[p])].status = StatusServerError

\* C9: an initialize call that finds no file (404) while GITHUB_TOKEN is set
\* puts an empty collection and, the put accepted, reports created = true.
C9_InitCreatesMissingFile ==
  \A p \in Procs :
    ( /\ kind[p] = "init"
      /\ pc[p] = "done"
      /\ GITHUB_TOKEN
      /\ ioLog[p][1].status = StatusNotFound )
    => /\ \E i \in OpsOf(p, "put") : ioLog[p][i].list = <<>>
       /\ \A i \in OpsOf(p, "put") : ioLog[p][i].ok => resp[p].created

\* the initialize calls whose put the store accepted
InitWriters ==
  {p \in Procs : kind[p] = "init" /\ \E i \in OpsOf(p, "put") : ioLog[p][i].ok}

\* a step of an initialize call leaves an existing file as it is
InitKeepsFile ==
  (\E p \in Procs : kind[p] = "init" /\ pc'[p] # pc[p] /\ repoFile.kind # "absent")
    => repoFile' = repoFile

\* C10 as stated: at most one initialize call writes, none changes an existing
\* file, and a call that finds the file (200) reports 'file exists'.
C10_Original ==
  /\ Cardinality(InitWriters) <= 1
  /\ \A p \in Procs :
       (kind[p] = "init" /\ pc[p] = "done" /\ ioLog[p][1].status = StatusOK)
         => resp[p] = Resp(StatusOK, "file exists")

\* C10 amended: at most one initialize call writes, none changes an existing
\* file, a call that finds the file and reads it as JSON reports created =
\* false, 'file exists', and a call whose read fails reports created = false,
\* 'unexpected error'.
C10_InitIdempotent ==
  /\ [](/\ Cardinality(InitWriters) <= 1
        /\ \A p \in Procs :
             (kind[p] = "init" /\ pc[p] = "done" /\ ioLog[p][1].status # StatusNotFound)
               => resp[p] = IF ioLog[p][1].ok
                              THEN Resp(StatusOK, "file exists")
                              ELSE Resp(StatusOK, "unexpected error"))
  /\ [][InitKeepsFile]_vars

\* two initialize calls have both found the file
C10_Witness ==
  \A p \in Procs :
    /\ kind[p] = "init"
    /\ pc[p] = "done"
    /\ ioLog[p][1].status = StatusOK
    /\ ioLog[p][1].ok
    /\ repoFile.list # <<>>


(***************************************************************************)
(* Properties of the local-file variant.                                   *)
(***************************************************************************)
\* the requests whose saveComments has an fs.writeFile in progress
Writers == {p \in LocalProcs : pc[p] = "sv_write"}

C8_TwoLocalPostsBothKept ==
  \A p, q \in LocalProcs :
    ( /\ p # q
      /\ Answered(p, "post", StatusCreated)
      /\ Answered(q, "post", StatusCreated)
      /\ ~wfail[p] /\ ~wfail[q]
      /\ \A r \in LocalProcs \ {p, q} : pc[r] = "idle" )
    => /\ InList(item[p], heap[commentsCache].list)
       /\ InList(item[q], heap[commentsCache].list)
       /\ InList(item[p], dataFile.list)
       /\ InList(item[q], dataFile.list)

\* no two records of the list l have the same id
UniqueIds(l) == \A i, j \in 1..Len(l) : l[i].id = l[j].id => i = j
\* the requests that have created a comment
Creators == {p \in LocalProcs : kind[p] = "post" /\ pc[p] = "done" /\ resp[p].status = StatusCreated}

\* C11: no two comments of the collection (the file, the cached array) have
\* the same id, and no id is assigned to two comments over the lifetime of the
\* collection, whether or not the first of them was deleted since.
C11_IdsUniqueForever ==
  /\ UniqueIds(dataFile.list)
  /\ commentsCache # Null => UniqueIds(heap[commentsCache].list)
  /\ \A p, q \in Creators : item[p].id = item[q].id => p = q

(***************************************************************************)
(* Properties of single requests (one client at a time).                   *)
(***************************************************************************)
Clients == SeqProcs \cup FileProcs
\* the stored collection of the server that client p talks to
StoreOf(p) == IF p \in SeqProcs THEN repoFile.list ELSE dataFile.list
\* the step in which the request of p, of kind k, is answered with status st
Responds(p, k, st) ==
  pc[p] # "done" /\ pc'[p] = "done" /\ kind'[p] = k /\ resp'[p].status = st

\* C12: when a POST is answered 201, the stored collection holds every record
\* it held before the request, and the new comment.
C12_AppendKeepsRecords ==
  [][\A p \in Clients :
       Responds(p, "post", StatusCreated)
         => /\ InList(item'[p], StoreOf(p)')
            /\ \A i \in 1..Len(StoreOf(p)) : InList(StoreOf(p)[i], StoreOf(p)')]_vars

\* the collection the server of client p serves: the file in the repository,
\* the cached array
ServedOf(p) ==
  IF p \in SeqProcs THEN repoFile.list
  ELSE IF commentsCache = Null THEN dataFile.list
  ELSE heap[commentsCache].list
\* the list l is the list c without its k-th record
Without(c, k, l) == l = SubSeq(c, 1, k - 1) \o SubSeq(c, k + 1, Len(c))
\* the positions of the records of c that have the id
Having(c, id) == {k \in 1..Len(c) : c[k].id = id}
\* no store call of the request failed
NoCallFailed(p) ==
  /\ \A i \in 1..Len(ioLog[p]) : ioLog[p][i].ok
  /\ ~wfail[p]

NotFoundStep(p) ==
  /\ kind'[p] = "delete"
  /\ pc[p] \in {"idle", "h_read", "es_write", "ld_read"}
  /\ pc'[p] # pc[p]
  /\ Having(ServedOf(p), delId'[p]) = {}
\* the step writes nothing and changes neither the collection nor the cache
KeepsCollection(p) ==
  /\ repoFile' = repoFile
  /\ StoreOf(p)' = StoreOf(p)
  /\ ServedOf(p)' = ServedOf(p)
  /\ commentsCache # Null => commentsCache' = commentsCache /\ heap'[commentsCache] = heap[commentsCache]
  /\ OpsOf(p, "put")' = {}
  /\ pc'[p] \notin {"s_read", "s_put", "sv_wait", "sv_write"}
  /\ \A st \in {StatusNoContent, StatusNotFound, StatusServerError} :
       (Responds(p, "delete", st) /\ NoCallFailed(p)') => resp'[p] = Resp(StatusNotFound, "not found")

\* C14 as stated: a DELETE of an id that no record has responds 404, writes
\* nothing to the backing store and leaves collection and cache unchanged.
C14_Original ==
  [][\A p \in Clients : NotFoundStep(p) => KeepsCollection(p) /\ dataFile' = dataFile]_vars

\* C14 amended: a DELETE of an id that no record has responds 404, writes no
\* collection and leaves the records of the stored collection and of the cached
\* array unchanged; the local-file server, finding no file, creates it holding
\* the empty collection.
C14_DeleteOfAbsentIdKeepsAll ==
  [][\A p \in Clients :
       NotFoundStep(p)
         => /\ KeepsCollection(p)
            /\ \/ dataFile' = dataFile
               \/ dataFile = AbsentFile /\ dataFile' = ArrayFile(<<>>)]_vars

\* a DELETE of an id that none of the stored records has was answered 404
C14_Witness ==
  \E p \in Clients :
    /\ Answered(p, "delete", StatusNotFound)
    /\ Len(ServedOf(p)) = MaxStored
    /\ Having(ServedOf(p), delId[p]) = {}

\* the list l is ordered by created_at, newest first
NewestComesFirst(l) ==
  \A i, j \in 1..Len(l) : i < j => l[i].created_at.ms >= l[j].created_at.ms

\* C15: the list a GET responds with is ordered by created_at, newest first,
\* whatever the order of the stored collection.
C15_ListIsNewestFirst ==
  \A p \in Clients : Answered(p, "get", StatusOK) => NewestComesFirst(resp[p].body)

\* the reads of p's log that the store answered with 404
NotFoundReads(p) ==
  {i \in OpsOf(p, "hread") \cup OpsOf(p, "read") : ioLog[p][i].status = StatusNotFound}

WithinBounds(name, text) ==
  Len(name) \in 1..MaxNameLength /\ Len(text) \in 1..MaxTextLength

\* C17: a POST is rejected with 400 exactly when its trimmed name or text is
\* empty or longer than its bound (item holds the trimmed name and text from
\* the moment the request is received).
C17_RejectedIffOutOfBounds ==
  \A p \in Clients :
    kind[p] = "post" =>
      (Answered(p, "post", StatusBadRequest) <=> ~WithinBounds(item[p].name, item[p].text))

\* the body of p's POST is one the validation of its server is to reject: an
\* empty name or text; in the local-file server also one over its bound
ToBeRejected(p) ==
  IF p \in SeqProcs THEN Len(item[p].name) = 0 \/ Len(item[p].text) = 0
  ELSE ~WithinBounds(item[p].name, item[p].text)
\* the step makes no store call and changes neither store nor cache
Untouched(p) ==
  /\ ioLog'[p] = <<>>
  /\ UNCHANGED <<repoFile, dataFile, heap, commentsCache, writing>>

\* C18: a POST with a body that validation is to reject is answered 400 in the
\* step that receives it, before any await: no store call is made, and store
\* and cache are left as they are; no 400 is sent otherwise.
C18_RejectedBeforeAnyStoreCall ==
  [][\A p \in Clients :
       /\ (pc[p] = "idle" /\ kind'[p] = "post" /\ ToBeRejected(p)')
            => Responds(p, "post", StatusBadRequest) /\ Untouched(p)
       /\ Responds(p, "post", StatusBadRequest)
            => pc[p] = "idle" /\ ToBeRejected(p)' /\ Untouched(p)]_vars

\* the local-file server has rejected a text of 1001 characters, its collection
\* holding records
C18_Witness ==
  \E p \in FileProcs :
    /\ Answered(p, "post", StatusBadRequest)
    /\ Len(item[p].text) = MaxTextLength + 1
    /\ Len(dataFile.list) = MaxStored

\* the string s has no angle bracket
NoAngleBracket(s) == "<" \notin Range(s) /\ ">" \notin Range(s)
\* no name and no text of the list l has one
AllNeutral(l) ==
  \A i \in 1..Len(l) : NoAngleBracket(l[i].name) /\ NoAngleBracket(l[i].text)

\* C19: no name and no text of a comment in the stored collection (the
\* repository's file, the data file, the cached array) contains '<' or '>'.
C19_NoAngleBracketStored ==
  /\ AllNeutral(repoFile.list)
  /\ AllNeutral(dataFile.list)
  /\ \A r \in 1..Len(heap) : AllNeutral(heap[r].list)

(***************************************************************************)
(* Properties of the search endpoint and of the normalizer.                *)
(***************************************************************************)
\* the search request of p has its response, the provider having sent d
SearchDone(p) == kind[p] = "search" /\ pc[p] = "done"
\* the arrays that are the 'results' field of the object d
ResultsArrays(d) ==
  IF d.t # "object" THEN {}
  ELSE {d.obj[i][2] : i \in {k \in 1..Len(d.obj) : d.obj[k][1] = Key("results") /\ d.obj[k][2].t = "array"}}
\* the response is the success response that carries the array a
Carries(p, a) == resp[p].status = StatusOK /\ resp[p].body = a.arr

\* C20: a provider body that is an array is what the search responds with,
\* whatever the array holds; a body that is not an array and whose 'results'
\* field is an array makes the search respond with that array, whatever its
\* text fields hold.
C20_ArrayThenResultsThenText ==
  \A p \in SearchProcs :
    SearchDone(p) =>
      /\ data.t = "array" => Carries(p, data)
      /\ \A a \in ResultsArrays(data) : Carries(p, a)

\* the provider's body had the array [X] as its 'results' and the JSON of the
\* array [Y] as its 'output_text', and the response carries [X]
C20_Witness ==
  \E p \in SearchProcs :
    /\ SearchDone(p)
    /\ ResultsArrays(data) = {JArr(<<Option("X")>>)}
    /\ \E i \in 1..Len(data.obj) :
         data.obj[i] = <<Key("output_text"), JsonOf(JArr(<<Option("Y")>>))>>
    /\ Carries(p, JArr(<<Option("X")>>))

\* the first of data.output_text, data.output, data.text that is truthy, the
\* first text candidate of the loop; undefined when there is none
FirstText(d) ==
  IF Truthy(Get(d, "output_text")) THEN Get(d, "output_text")
  ELSE IF Truthy(Get(d, "output")) THEN Get(d, "output")
  ELSE IF Truthy(Get(d, "text")) THEN Get(d, "text")
  ELSE Undefined
\* the loop over the text candidates is reached with the string t first
LoopStartsWith(d, t) ==
  /\ d.t = "object"
  /\ ResultsArrays(d) = {}
  /\ Get(d, "candidates").t # "object"
  /\ t = FirstText(d)
  /\ t.t = "string"
\* the text from the first '[' to the last ']' of txt is the JSON of the array a
BracketsHold(txt, a) ==
  HasMatch(txt) /\ JSONparse(Match(txt)).ok /\ JSONparse(Match(txt)).val = a /\ a.t = "array"

\* C21: when the first text candidate is not JSON as a whole and its text from
\* the first '[' to the last ']' is the JSON of an array, the search responds
\* with that array; when the candidate is JSON as a whole, of a value that is
\* neither an array nor an object with a 'results' array, the response does
\* not carry the array between its brackets.
C21_SubstringOnlyAfterWholeFails ==
  \A p \in SearchProcs :
    LET t == FirstText(data)
        whole == JSONparse(t.str)
    IN (SearchDone(p) /\ LoopStartsWith(data, t) /\ HasMatch(t.str)) =>
         LET a == JSONparse(Match(t.str)).val
         IN BracketsHold(t.str, a) =>
              /\ ~whole.ok => Carries(p, a)
              /\ (whole.ok /\ whole.val.t # "array" /\ ResultsArrays(whole.val) = {})
                   => ~Carries(p, a)

\* the provider's body had only the text 'Here you go [{"title":"T"}] thanks'
\* and the response carries [{"title":"T"}]
C21_Witness ==
  \E p \in SearchProcs :
    /\ SearchDone(p)
    /\ data = JObj(<< <<Key("text"), Prose(JArr(<<Option("T")>>))>> >>)
    /\ Carries(p, JArr(<<Option("T")>>))

\* the arrays the text txt gives: the value it is the JSON of, or that
\* value's 'results'; when it is not JSON, the value between its brackets
ArraysOfText(txt) ==
  LET whole == JSONparse(txt)
  IN IF whole.ok
       THEN {a \in {whole.val} : a.t = "array"} \cup ResultsArrays(whole.val)
       ELSE IF HasMatch(txt)
              THEN {a \in {JSONparse(Match(txt)).val} : JSONparse(Match(txt)).ok /\ a.t = "array"}
              ELSE {}
\* the texts of the body d: its text fields, the outputs of its candidates,
\* and its own JSON
TextsOf(d) ==
  {String(f) : f \in {g \in {Get(d, "output_text"), Get(d, "output"), Get(d, "text")} : Truthy(g)}}
    \cup (IF Get(d, "candidates").t = "array" THEN {candidatesText(d).str} ELSE {})
    \cup {stringify(d)}
\* the arrays that some strategy extracts from the body d
Extractable(d) ==
  IF d.t \in {"null", "undefined"} THEN {}
  ELSE {a \in {d} : a.t = "array"} \cup ResultsArrays(d)
         \cup UNION {ArraysOfText(txt) : txt \in TextsOf(d)}

Valid(p) == InvalidSearch(searchBody) = ""
\* the settlements of the provider call of p: resolved, rejected
Settled(p, isOk) == {i \in OpsOf(p, "settled") : ioLog[p][i].ok = isOk}
\* what the provider sent to p, in a response of any status
Payloads(p) == {ioLog[p][i].list[1] : i \in OpsOf(p, "settled")}
\* the response says nothing of the payload d: it has no body, and the fixed
\* message
Silent(p) == resp[p].body = <<>> /\ resp[p].reason = GenericError

\* C23: a search request that passed the validation gets 200 or 502; it gets
\* 502 when the provider call was rejected, when it was not made, and when
\* no array is extracted from the provider's body; the 502 response has no
\* body and the fixed message, whatever the provider sent.
C23_FailuresAreGatewayErrors ==
  \A p \in SearchProcs :
    (SearchDone(p) /\ Valid(p)) =>
      /\ resp[p].status \in {StatusOK, StatusBadGateway}
      /\ (Settled(p, TRUE) = {} \/ Extractable(data) = {}) => resp[p].status = StatusBadGateway
      /\ resp[p].status = StatusBadGateway => Silent(p)

\* the provider answered 500 with a body, and the search responded 502
C23_Witness ==
  \E p \in SearchProcs :
    /\ SearchDone(p)
    /\ Valid(p)
    /\ Settled(p, FALSE) # {}
    /\ Payloads(p) = {JArr(<<Option("E")>>)}
    /\ resp[p].status = StatusBadGateway
    /\ Silent(p)

\* the body passes the checks: the query is a string of 1 to 500 characters,
\* the budget, when given, is one of the three, and max_results, when given,
\* is a number from 1 to 20
Acceptable(body) ==
  /\ body.query.type = "string"
  /\ Len(body.query.chars) \in 1..MaxQueryLength
  /\ body.budget \in {Absent, Affordable, Moderate, Luxury}
  /\ \/ body.max_results = Absent
     \/ body.max_results.type = "number" /\ body.max_results.n \in MinResults..MaxResults
\* the search request of p was received
Received(p) == kind[p] = "search"
\* the number of provider calls made for p
Calls(p) == Cardinality(OpsOf(p, "provider"))
\* a request that does not pass the checks is answered 400 and makes no call
RejectedWithoutCall(p) ==
  (Received(p) /\ ~Acceptable(searchBody)) =>
    pc[p] = "done" /\ resp[p].status = StatusBadRequest /\ Calls(p) = 0

\* C24 as stated: a request that does not pass the checks is answered 400 and
\* makes no provider call; a request that passes makes exactly one.
C24_Original ==
  \A p \in SearchProcs :
    /\ RejectedWithoutCall(p)
    /\ (Received(p) /\ Acceptable(searchBody)) => Calls(p) = 1

\* C24, amended: a request that does not pass the checks is answered 400 and
\* makes no provider call; a request that passes is not answered 400 and
\* makes at most one call, and exactly one when GEMINI_API_URL and
\* GEMINI_API_KEY are set.
C24_ValidationThenOneCall ==
  \A p \in SearchProcs :
    /\ RejectedWithoutCall(p)
    /\ (Received(p) /\ Acceptable(searchBody)) =>
         /\ resp[p].status # StatusBadRequest
         /\ Calls(p) <= 1
         /\ GEMINI_API_URL => Calls(p) = 1

\* a request with a budget outside the three was answered 400 without a call,
\* the provider being configured
C24_Witness ==
  \E p \in SearchProcs :
    /\ Received(p)
    /\ GEMINI_API_URL
    /\ searchBody.budget = Text(<<"f", "r", "e", "e">>)
    /\ resp[p].status = StatusBadRequest
    /\ Calls(p) = 0

(***************************************************************************)
(* Properties of the failure handling of the comment endpoints.            *)
(***************************************************************************)
\* C25: no request to the comment endpoints ends with its handler's promise
\* rejected, which is a request without a response and a failure that
\* escapes the handler.
C25_NoHandlerRejects ==
  \A p \in Clients : pc[p] # "rejected"

\* the collection the request of p gave to its last write
Candidate(p) == IF p \in SeqProcs THEN next[p] ELSE wdata[p]
\* the request of p was answered with its success status
Success(p) == Answered(p, "post", StatusCreated) \/ Answered(p, "delete", StatusNoContent)

\* C26: when a POST is answered 201 or a DELETE 204, no other request being
\* in flight, the backing store holds the collection the request wrote.
C26_SuccessOnlyAfterWrite ==
  \A p \in Clients : Success(p) => StoreOf(p) = Candidate(p)

\* the file does not hold a JSON array
Corrupt(f) == f.kind \in {"malformed", "nonarray"}
\* the file of the server that serves p
FileOf(p) == IF p \in SeqProcs THEN repoFile ELSE dataFile

\* C27: a file that does not hold a JSON array is not replaced, and a request
\* that is answered while the file is such is answered with a failure (400
\* when its own body was rejected before any read).
C27_CorruptStoreIsAReadFailure ==
  [][/\ Corrupt(repoFile) => repoFile' = repoFile
     /\ Corrupt(dataFile) => dataFile' = dataFile
     /\ \A p \in Clients :
          (Corrupt(FileOf(p)) /\ pc[p] # "done" /\ pc'[p] = "done") =>
            resp'[p].status \in {StatusBadRequest, StatusServerError}]_vars

(***************************************************************************)
(* Properties of the cache of the local-file variant.                      *)
(***************************************************************************)
\* what commentsCache refers to and the elements of that array
CacheState ==
  <<commentsCache, IF commentsCache = Null THEN <<>> ELSE heap[commentsCache].list>>

\* C28: a step that changes the loaded cache, by assigning commentsCache or
\* by changing the cached array, is a step of a POST or DELETE that holds the
\* single-writer flag when the step ends. (The first load of the cache is
\* left out.)
C28_CacheChangesUnderTheFlag ==
  [][(commentsCache # Null /\ CacheState' # CacheState) =>
       \E p \in DOMAIN pc :
         /\ pc'[p] # pc[p]
         /\ kind'[p] \in {"post", "delete"}
         /\ pc'[p] = "sv_write"]_vars

\* no saveComments call is in progress and some call has returned
SavesReturned ==
  /\ \A p \in DOMAIN pc : pc[p] \notin {"sv_wait", "sv_write"}
  /\ \E p \in DOMAIN pc : Success(p)
\* no fs.writeFile has failed
NoWriteFailed == \A p \in DOMAIN pc : ~wfail[p]

\* C29: when every saveComments call has returned and no file write failed,
\* the comments file holds the elements of the cached array.
C29_FileEqualsCache ==
  (SavesReturned /\ NoWriteFailed) =>
    /\ commentsCache # Null
    /\ dataFile.kind = "array"
    /\ dataFile.list = heap[commentsCache].list

(***************************************************************************)
(* Properties of the backoff of saveCommentsToGitHub                       *)
(***************************************************************************)
\* the i-th entry of p's log is an attempt that ended in a conflict
ConflictAt(p, i) ==
  /\ ioLog[p][i].op \in {"read", "put"}
  /\ ~ioLog[p][i].ok
  /\ IsConflict(ioLog[p][i].status)
\* the i-th entry of p's log is a timer wait of the save loop
WaitAt(p, i) == ioLog[p][i].op = "wait"
\* the entry after the i-th, if there is one, starts attempt number k + 1
\* (attempts are counted from 0 in the log)
ThenAttempt(p, i, k) ==
  IF i < Len(ioLog[p])
    THEN ioLog[p][i + 1].op = "read" /\ ioLog[p][i + 1].attempt = k
    ELSE pc[p] = "s_read" /\ attempt[p] = k

\* C30: the backoff is linear and lies between attempts only: a wait follows
\* the k-th conflicting attempt for k = 1, 2, 3, lasts 200 * k ms and is
\* followed by attempt k + 1; the 4th conflicting attempt is followed by no
\* wait.
C30_LinearBackoffBetweenAttempts ==
  \A p \in DOMAIN ioLog : \A i \in DOMAIN ioLog[p] :
    LET k == ioLog[p][i].attempt + 1 IN
    /\ WaitAt(p, i) =>
         /\ k \in 1..(maxAttempts - 1)
         /\ ioLog[p][i].delay = 200 * k
         /\ ThenAttempt(p, i, k)
    /\ (ConflictAt(p, i) /\ k < maxAttempts) =>
         IF i < Len(ioLog[p]) THEN WaitAt(p, i + 1) ELSE pc[p] = "s_wait"
    /\ (ConflictAt(p, i) /\ k = maxAttempts /\ i < Len(ioLog[p])) =>
         ~WaitAt(p, i + 1)

(***************************************************************************)
(* Properties of two appends that race for one version of the file         *)
(***************************************************************************)
\* the puts of p in its first attempt
FirstPuts(p) == {i \in OpsOf(p, "put") : ioLog[p][i].attempt = 0}
\* p and q are POSTs whose first puts carried the same sha
SameFirstSha(p, q) ==
  /\ p # q
  /\ kind[p] = "post" /\ kind[q] = "post"
  /\ FirstPuts(p) # {} /\ FirstPuts(q) # {}
  /\ \A i \in FirstPuts(p), j \in FirstPuts(q) : ioLog[p][i].sha = ioLog[q][j].sha
\* p's first put was accepted and p made no other attempt
FirstTry(p) ==
  /\ ConflictPuts(p) = {}
  /\ OpsOf(p, "wait") = {}
  /\ Cardinality(OpsOf(p, "put")) = 1
\* p's first put met a conflict, p waited and tried again
Retried(p) ==
  /\ ConflictPuts(p) = FirstPuts(p)
  /\ Cardinality(OpsOf(p, "wait")) = 1
  /\ Cardinality(OpsOf(p, "put")) = 2

\* C31: with the write credential configured and a store that answers from
\* the file alone, two POSTs whose first puts carried the same sha never both
\* have their first put accepted, and when both have responded one succeeded
\* on its first attempt, the other met one conflict and retried, and both
\* responded 201 within maxAttempts attempts.
C31_OneConflictBothSucceed ==
  \A p, q \in Procs :
    SameFirstSha(p, q) =>
      /\ ConflictPuts(p) \cup ConflictPuts(q) # {} \/ ~GITHUB_TOKEN
      /\ (GITHUB_TOKEN /\ pc[p] = "done" /\ pc[q] = "done") =>
           /\ Answered(p, "post", StatusCreated)
           /\ Answered(q, "post", StatusCreated)
           /\ (FirstTry(p) /\ Retried(q)) \/ (FirstTry(q) /\ Retried(p))
           /\ Cardinality(OpsOf(p, "put")) <= maxAttempts
           /\ Cardinality(OpsOf(q, "put")) <= maxAttempts

C31_Witness ==
  \E p, q \in Procs :
    /\ SameFirstSha(p, q)
    /\ GITHUB_TOKEN
    /\ Answered(p, "post", StatusCreated)
    /\ Answered(q, "post", StatusCreated)
    /\ FirstTry(p)
    /\ Retried(q)

(***************************************************************************)
(* Properties of the initialize operation without a write credential       *)
(***************************************************************************)
\* the initialize request p has responded and its read found no file
InitFoundNoFile(p) ==
  /\ kind[p] = "init"
  /\ pc[p] = "done"
  /\ Len(ioLog[p]) > 0
  /\ ioLog[p][1].op = "iread"
  /\ ioLog[p][1].status = StatusNotFound

\* C32: an initialize call that finds no file while GITHUB_TOKEN is not
\* configured makes no put and answers created = false with the reason
\* 'GITHUB_TOKEN not configured'.
C32_InitWithoutTokenSaysSo ==
  \A p \in Procs :
    (InitFoundNoFile(p) /\ ~GITHUB_TOKEN) =>
      /\ OpsOf(p, "put") = {}
      /\ ~resp[p].created
      /\ resp[p].reason = "GITHUB_TOKEN not configured"

(***************************************************************************)
(* Properties of requests whose outbound call is never answered            *)
(***************************************************************************)
\* the handler of p has been entered and has not responded
Pending(p) == pc[p] \notin {"off", "idle", "done"}

\* C33: every request to the comment endpoints and to the search endpoint
\* is answered eventually, whether or not the store or the provider answers
\* the calls made for it.
C33_EveryRequestIsAnswered ==
  \A p \in CallClients : Pending(p) ~> pc[p] = "done"

(***************************************************************************)
(* Properties of the termination of saveComments                           *)
(***************************************************************************)
\* p is inside saveComments: in the wait loop or writing
Saving(p) == pc[p] \in {"sv_wait", "sv_write"}

\* C34: when every file write ends, the flag is released after each write
\* and every saveComments call leaves the wait loop, writes and returns.
C34_EverySaveReturns ==
  /\ writing ~> ~writing
  /\ \A p \in LocalProcs : pc[p] = "sv_wait" ~> pc[p] = "sv_write"
  /\ \A p \in LocalProcs : Saving(p) ~> pc[p] = "done"

\* a POST has returned whose write carried another request's comment above
\* its own: it was in the wait loop when that request came, and left it
C34_Witness ==
  \E p \in LocalProcs :
    /\ kind[p] = "post"
    /\ pc[p] = "done"
    /\ resp[p].status = StatusCreated
    /\ Len(wdata[p]) > 1
    /\ wdata[p][1] # item[p]
    /\ ~writing

(***************************************************************************)
(* Properties of the candidate collection of POST /api/comments            *)
(***************************************************************************)
\* the list l is the comment it followed by the records of c in their order,
\* cut after MaxItems records
Prepended(l, it, c) ==
  /\ Len(l) = Min(Len(c) + 1, MaxItems)
  /\ l[1] = it
  /\ \A i \in 2..Len(l) : l[i] = c[i - 1]
  /\ Len(c) >= MaxItems => \A i \in MaxItems..Len(c) : ~InList(c[i], l)

\* C35: every list a POST of the remote-blob server puts is the new comment
\* followed by the records its handler read, in their order, cut to at most
\* 2000 records; a read of 2000 records loses its last record.
C35_CandidateIsPrependedAndCapped ==
  \A p \in SeqProcs :
    (kind[p] = "post" /\ Len(ioLog[p]) > 0) =>
      \A i \in OpsOf(p, "put") :
        /\ Len(ioLog[p][i].list) <= 2000
        /\ Prepended(ioLog[p][i].list, item[p], HRead(p).list)

\* a POST that read 2000 records has been answered 201
C35_Witness ==
  \E p \in SeqProcs :
    /\ Answered(p, "post", StatusCreated)
    /\ Len(HRead(p).list) = 2000
    /\ Len(repoFile.list) = 2000
    /\ repoFile.list[1] = item[p]
    /\ repoFile.list[2000] = HRead(p).list[1999]

(***************************************************************************)
(* Properties of DELETE /api/comments/:id with duplicate ids               *)
(***************************************************************************)
\* a step of the DELETE of client p that changes the collection served
Removes(p) ==
  /\ kind'[p] = "delete"
  /\ pc'[p] # pc[p]
  /\ ServedOf(p)' # ServedOf(p)
\* the list l is c without its records of the id: none of them is left, and
\* every other record is there, moved up by the number of removed records
\* before it
WithoutId(c, id, l) ==
  LET h == Having(c, id) IN
  /\ Having(l, id) = {}
  /\ Len(l) = Len(c) - Cardinality(h)
  /\ \A k \in 1..Len(c) :
       k \notin h => l[k - Cardinality({j \in h : j < k})] = c[k]

\* C36: the step of a DELETE that changes the collection removes every
\* record of the given id and keeps the others in their order; a DELETE that
\* has removed records responds 204.
C36_DeleteRemovesAllOfTheId ==
  [][\A p \in Clients :
       /\ Removes(p) =>
            /\ Having(ServedOf(p), delId'[p]) # {}
            /\ WithoutId(ServedOf(p), delId'[p], ServedOf(p)')
       /\ \A st \in {StatusNoContent, StatusNotFound, StatusServerError} :
            (Responds(p, "delete", st) /\ (Removes(p) \/ newList'[p] # Null))
              => st = StatusNoContent]_vars

\* a DELETE of an id that two records of the collection had was answered 204
C36_Witness ==
  \E p \in SeqProcs :
    /\ Answered(p, "delete", StatusNoContent)
    /\ HRead(p).list = WithDuplicate(MaxStored - 1)
    /\ Cardinality(Having(HRead(p).list, delId[p])) = 2
    /\ repoFile.list = SubSeq(NewestFirst(MaxStored - 1), 2, MaxStored - 1)

(***************************************************************************)
(* Properties of what the normalizer returns                               *)
(***************************************************************************)
SearchClients == SearchProcs \cup OlderSearchProcs
\* callGemini of the server that client p talks to
callGemini(p, d) == IF p \in OlderSearchProcs THEN normalizeOlder(d) ELSE normalize(d)
\* the bodies of the provider's responses of status 2xx to the request of p
Resolved(p) == {ioLog[p][i].list[1] : i \in Settled(p, TRUE)}

\* C37: for every body the provider answers with, what callGemini returns,
\* when it returns, is an array; the search then responds 200 with that
\* array as its results, and it responds 200 in no other case.
C37_NormalizerReturnsAnArray ==
  \A p \in SearchClients :
    /\ \A d \in Resolved(p) :
         callGemini(p, d).ok =>
           /\ isArray(callGemini(p, d).val)
           /\ pc[p] = "done" => Carries(p, callGemini(p, d).val)
    /\ resp[p].status = StatusOK =>
         \E d \in Resolved(p) : callGemini(p, d).ok /\ isArray(callGemini(p, d).val)

\* the older server returned the array that the texts of two predictions
\* make together
C37_Witness ==
  /\ \E p \in OlderSearchProcs :
       SearchDone(p) /\ Carries(p, JArr(<<JStr(<<Wd("a")>>), JStr(<<Wd("b")>>)>>))
  /\ isArray(Get(data, "predictions"))
  /\ Get(data, "candidates") = Undefined

(***************************************************************************)
(* Properties of the text candidates                                       *)
(***************************************************************************)
\* the text candidates that callGemini of the server of p builds from d
candidatesOf(p, d) ==
  IF p \in OlderSearchProcs THEN textCandidatesOlder(d) ELSE textCandidates(d)
\* the keys of the free-text fields, in the order of preference
FreeTextKeys == <<"output_text", "output", "text", "candidates", "generations">>
\* d has several free-text fields
SeveralTexts(d) ==
  Cardinality({i \in 1..Len(FreeTextKeys) : Truthy(Get(d, FreeTextKeys[i]))}) > 1
\* d comes to the text candidates of the server of p: it is no array, it has
\* no results array, its predictions gave nothing, building the candidates
\* did not throw
ComesToTexts(p, d) ==
  /\ ~isArray(d) /\ ~NoProperties(d) /\ ~isArray(Get(d, "results"))
  /\ IF p \in OlderSearchProcs
       THEN /\ ~MapThrows(d)
            /\ isArray(Get(d, "predictions")) => ~tryParseFromCandidates(Get(d, "predictions")).ok
       ELSE ~CandidatesThrow(d)
\* the texts of txts one after the other, sep between them
concatenated(txts, sep) == JStr(join([i \in 1..Len(txts) |-> String(txts[i])], sep))
\* the response of p is what the parse of txt gives: 200 with the array, or
\* the failure of the normalizer
AnswersFrom(p, txt) ==
  IF tryParseJSONFromText(txt).ok THEN Carries(p, tryParseJSONFromText(txt).val)
  ELSE resp[p].status = StatusBadGateway

\* C38: a search whose provider body has several free-text fields is answered
\* from the candidate texts concatenated in the order of preference: with
\* the array parsed out of the concatenated text, or with the failure when
\* that text gives none.
C38_ParsesTheConcatenatedText ==
  \A p \in SearchClients :
    SearchDone(p) =>
      \A d \in Resolved(p) :
        ComesToTexts(p, d) /\ SeveralTexts(d) =>
          AnswersFrom(p, concatenated(candidatesOf(p, d), <<>>))

====
